---- MODULE Spec2Model ----
(***************************************************************************)
(* Model of the Ink! v6 event decoders and of the version registry of      *)
(* squid-guess-passet-hub.                                                 *)
(*                                                                         *)
(*  - the version registry written by gen-ink-decoder.js and read by the   *)
(*    generated registry.ts (resolveDecoder)                               *)
(*  - the generated per-event decoders (events.ts, produced by             *)
(*    generateEventsTs) over the readers of support.ts                     *)
(*  - the interpreter-style decoder SubsquidInkDecoder                     *)
(*                                                                         *)
(* JavaScript strings that the code inspects character by character        *)
(* (addresses, signatures, hex payloads) are sequences of one-character    *)
(* strings.  A JavaScript `undefined` number is Undefined, `null` is Null. *)
(***************************************************************************)
EXTENDS Integers, Sequences, FiniteSets, TLC

VARIABLES registry, switchCases, lastResolve, lastMerge, call, outcome,
          firstOutcome, lastInput,
          typeGraph, walk, document, loadResult,
          env, targetContracts, batch, batchResult,
          games, gameEvents, lastProcessed, processedCount,
          probe, decoded

registryVars == <<registry, switchCases, lastResolve, lastMerge>>
decodeVars == <<call, outcome>>
repeatVars == <<firstOutcome, lastInput>>
graphVars == <<typeGraph, walk>>
metadataVars == <<document, loadResult>>
batchVars == <<env, targetContracts, batch, batchResult>>
gameVars == <<games, gameEvents, lastProcessed, processedCount>>
valueVars == <<probe, decoded>>

vars == <<registryVars, decodeVars, repeatVars, graphVars, metadataVars, batchVars, gameVars, valueVars>>

\* the variables an operation on the registry, a decode call or a walk of a
\* type graph has nothing to do with
outsideRegistry == <<decodeVars, repeatVars, graphVars, metadataVars, batchVars, gameVars, valueVars>>
outsideDecode == <<registryVars, repeatVars, graphVars, metadataVars, batchVars, gameVars, valueVars>>
outsideRepeat == <<registryVars, graphVars, metadataVars, batchVars, gameVars, valueVars>>
outsideGraph == <<registryVars, decodeVars, repeatVars, metadataVars, batchVars, gameVars, valueVars>>
outsideMetadata == <<registryVars, decodeVars, repeatVars, graphVars, batchVars, gameVars, valueVars>>
outsideBatch == <<registryVars, decodeVars, repeatVars, graphVars, metadataVars, gameVars, valueVars>>
outsideGames == <<registryVars, decodeVars, repeatVars, graphVars, metadataVars, batchVars, valueVars>>
outsideValues == <<registryVars, decodeVars, repeatVars, graphVars, metadataVars, batchVars, gameVars>>

\* ------------------------------------------------------------------------
\* Bounds of the model
\* ------------------------------------------------------------------------
MaxHeight == 1
MaxTailLen == 2
MaxTopics == 2

\* ------------------------------------------------------------------------
\* JavaScript values
\* ------------------------------------------------------------------------
Undefined == -1
Null == -2

\* !x for x a number, undefined or null
Falsy(x) == x = Undefined \/ x = Null \/ x = 0

LowerChar(c) ==
  CASE c = "A" -> "a" [] c = "B" -> "b" [] c = "C" -> "c" [] c = "D" -> "d"
    [] c = "E" -> "e" [] c = "F" -> "f" [] c = "X" -> "x" [] OTHER -> c

UpperChar(c) ==
  CASE c = "a" -> "A" [] c = "b" -> "B" [] c = "c" -> "C" [] c = "d" -> "D"
    [] c = "e" -> "E" [] c = "f" -> "F" [] c = "x" -> "X" [] OTHER -> c

\* String.prototype.toLowerCase / toUpperCase
ToLowerCase(s) == [i \in DOMAIN s |-> LowerChar(s[i])]
ToUpperCase(s) == [i \in DOMAIN s |-> UpperChar(s[i])]

\* Array.prototype.indexOf(x) !== -1
Includes(arr, x) == \E i \in DOMAIN arr : arr[i] = x

\* ========================================================================
\* Version registry (registry.ts, gen-ink-decoder.js)
\* ========================================================================

\* A VersionEntry as it stands in the registry literal: addresses = <<>> when
\* the property is omitted, from/to = Undefined when omitted, to = Null for
\* an open end.
VersionEntry(version, addresses, from, to) ==
  [version |-> version, addresses |-> addresses, from |-> from, to |-> to]

\* const addressMatches = registry.filter(...)
AddressMatch(e, address) ==
  IF Len(e.addresses) > 0 THEN Includes(e.addresses, address) ELSE TRUE

\* const rangeMatches = addressMatches.filter(...)
RangeMatch(e, blockHeight) ==
  LET fromMatch == Falsy(e.from) \/ blockHeight >= e.from
      toMatch == Falsy(e.to) \/ blockHeight < e.to
  IN fromMatch /\ toMatch

\* the candidates of a resolveDecoder that has no fallback to the address matches
CandidatesNoFallback(rangeMatches, addressMatches) == rangeMatches

\* const candidates = rangeMatches.length > 0 ? rangeMatches : addressMatches
Candidates(rangeMatches, addressMatches) ==
  IF Len(rangeMatches) > 0 THEN rangeMatches ELSE addressMatches

\* a comparator that sorts the other way round: aFrom - bFrom
CompareFromAscending(a, b) ==
  LET aFrom == IF a.from # Undefined THEN a.from ELSE 0
      bFrom == IF b.from # Undefined THEN b.from ELSE 0
  IN aFrom - bFrom

\* comparator of candidates.sort: bFrom - aFrom, absent from counted as 0
CompareFromDesc(a, b) ==
  LET aFrom == IF a.from # Undefined THEN a.from ELSE 0
      bFrom == IF b.from # Undefined THEN b.from ELSE 0
  IN bFrom - aFrom

\* Array.prototype.sort is stable: e goes behind every element that does not
\* compare greater than it.
RECURSIVE InsertCandidate(_, _)
InsertCandidate(sorted, e) ==
  IF sorted = <<>> THEN <<e>>
  ELSE IF CompareFromDesc(sorted[1], e) <= 0
       THEN <<sorted[1]>> \o InsertCandidate(Tail(sorted), e)
       ELSE <<e>> \o sorted

RECURSIVE SortCandidates(_)
SortCandidates(s) ==
  IF s = <<>> THEN <<>>
  ELSE InsertCandidate(SortCandidates(SubSeq(s, 1, Len(s) - 1)), s[Len(s)])

\* resolveDecoder(_address, _blockHeight): the intermediate lists and the
\* outcome ("ok" with the version of the module returned, or the error thrown)
resolveDecoder(reg, cases, address, blockHeight) ==
  LET addressMatches == SelectSeq(reg, LAMBDA e : AddressMatch(e, address))
      rangeMatches == SelectSeq(addressMatches, LAMBDA e : RangeMatch(e, blockHeight))
      candidates == Candidates(rangeMatches, addressMatches)
      sorted == SortCandidates(candidates)
      base == [address |-> address, blockHeight |-> blockHeight,
               addressMatches |-> addressMatches, rangeMatches |-> rangeMatches,
               candidates |-> candidates, status |-> "none", version |-> ""]
  IN IF Len(candidates) = 0
     THEN [base EXCEPT !.status = "NoDecoderForAddress"]
     ELSE IF sorted[1].version \in cases
          THEN [base EXCEPT !.status = "ok", !.version = sorted[1].version]
          ELSE [base EXCEPT !.status = "VersionNotFound", !.version = sorted[1].version]

\* a resolveDecoder that sorts the registry array itself
registryAfterInPlaceSort(reg, address, blockHeight) == SortCandidates(reg)

\* the module's registry array after a call of resolveDecoder: filter builds
\* new arrays (addressMatches, rangeMatches), candidates is one of them, and
\* candidates.sort reorders that array only
registryAfterResolve(reg, address, blockHeight) == reg

\* comparator of existingEntries.sort in generateMergedRegistryTs: absent from
\* counted as -1
CompareRegistryFrom(a, b) ==
  LET aFrom == IF a.from # Undefined THEN a.from ELSE -1
      bFrom == IF b.from # Undefined THEN b.from ELSE -1
  IN aFrom - bFrom

RECURSIVE InsertEntry(_, _)
InsertEntry(sorted, e) ==
  IF sorted = <<>> THEN <<e>>
  ELSE IF CompareRegistryFrom(sorted[1], e) <= 0
       THEN <<sorted[1]>> \o InsertEntry(Tail(sorted), e)
       ELSE <<e>> \o sorted

RECURSIVE SortEntries(_)
SortEntries(s) ==
  IF s = <<>> THEN <<>>
  ELSE InsertEntry(SortEntries(SubSeq(s, 1, Len(s) - 1)), s[Len(s)])

\* a findIndex that never finds the version: every merge adds an entry
FindIndexNever(entries, version) == 0

\* existingEntries.findIndex(e => e.version === newVersion), 0 when none
FindIndex(entries, version) ==
  IF \E i \in DOMAIN entries : entries[i].version = version
  THEN CHOOSE i \in DOMAIN entries :
         /\ entries[i].version = version
         /\ \A j \in 1..(i - 1) : entries[j].version # version
  ELSE 0

\* the entry list generateMergedRegistryTs prints: insert or update by version
\* tag, then sort ascending by from
generateMergedRegistryTs(existingEntries, newVersion, newAddresses, newFrom, newTo) ==
  LET existingIndex == FindIndex(existingEntries, newVersion)
      newEntry == VersionEntry(newVersion, newAddresses, newFrom, newTo)
      updated == IF existingIndex >= 1
                 THEN [existingEntries EXCEPT ![existingIndex] = newEntry]
                 ELSE Append(existingEntries, newEntry)
  IN SortEntries(updated)

\* the array existingEntries after the call: the assignment or push and the
\* sort act on the array that was passed in, and the text is printed from it
ExistingEntriesAfterMerge(existingEntries, newVersion, newAddresses, newFrom, newTo) ==
  generateMergedRegistryTs(existingEntries, newVersion, newAddresses, newFrom, newTo)

\* the entry list parseExistingRegistry reads back from the registry literal:
\* an addresses property that is missing or empty gives undefined, from and
\* to are read as written
parseExistingRegistry(literal) ==
  [i \in DOMAIN literal |->
     VersionEntry(literal[i].version,
                  IF Len(literal[i].addresses) = 0 THEN <<>> ELSE literal[i].addresses,
                  literal[i].from, literal[i].to)]

\* the cases of the switch in the printed resolveDecoder
resolveSwitch(entries) == {entries[i].version : i \in DOMAIN entries}

\* ========================================================================
\* Hex strings and byte buffers (support.ts)
\* ========================================================================
HexDigits == <<"0", "1", "2", "3", "4", "5", "6", "7", "8", "9", "a", "b", "c", "d", "e", "f">>

\* parseInt(c, 16) of one hex digit, either case
HexVal(c) ==
  LET l == LowerChar(c)
  IN (CHOOSE i \in 1..16 : HexDigits[i] = l) - 1

\* hex.startsWith('0x')
StartsWith0x(hex) == Len(hex) >= 2 /\ hex[1] = "0" /\ hex[2] = "x"

\* hex.startsWith('0x') ? hex.slice(2) : hex
Strip0x(hex) == IF StartsWith0x(hex) THEN SubSeq(hex, 3, Len(hex)) ELSE hex

\* hexToBytes, for a string of an even number of hex digits
hexToBytes(hex) ==
  LET clean == Strip0x(hex)
  IN [i \in 1..(Len(clean) \div 2) |->
        HexVal(clean[2 * i - 1]) * 16 + HexVal(clean[2 * i])]

RECURSIVE HexOf(_)
HexOf(bytes) ==
  IF bytes = <<>> THEN <<>>
  ELSE <<HexDigits[(bytes[1] \div 16) + 1], HexDigits[(bytes[1] % 16) + 1]>> \o HexOf(Tail(bytes))

\* bytesToHex
bytesToHex(bytes) == <<"0", "x">> \o HexOf(bytes)

\* buf[offset] of a Uint8Array: undefined outside the buffer
ByteAt(buf, offset) ==
  IF offset >= 0 /\ offset < Len(buf) THEN buf[offset + 1] ELSE Undefined

\* ToInt32 of a byte operand of |, <<, >> and &: undefined counts as 0
Int32Of(b) == IF b = Undefined THEN 0 ELSE b

\* buf.slice(start, end), indices clamped to the buffer
Slice(buf, start, end) ==
  LET lo == IF start < 0 THEN 0 ELSE IF start > Len(buf) THEN Len(buf) ELSE start
      hi == IF end < 0 THEN 0 ELSE IF end > Len(buf) THEN Len(buf) ELSE end
  IN SubSeq(buf, lo + 1, hi)

\* ------------------------------------------------------------------------
\* Decoded values
\* ------------------------------------------------------------------------
NumV(n) == [k |-> "number", n |-> n]
UndefinedV == [k |-> "undefined"]
NullV == [k |-> "null"]
BoolV(b) == [k |-> "boolean", b |-> b]
StrV(s) == [k |-> "string", s |-> s]
HexV(chars) == [k |-> "hexstring", chars |-> chars]
BytesV(bytes) == [k |-> "bytes", bytes |-> bytes]
TextV(bytes) == [k |-> "text", utf8 |-> bytes]
ListV(items) == [k |-> "array", items |-> items]
ObjectV(fields) == [k |-> "object", fields |-> fields]

RECURSIVE StripZeros(_)
StripZeros(digits) ==
  IF digits = <<>> THEN <<>>
  ELSE IF digits[Len(digits)] = 0 THEN StripZeros(SubSeq(digits, 1, Len(digits) - 1))
       ELSE digits

\* a bigint, held as its little-endian base-256 digits without leading zeros
BigIntV(leBytes) == [k |-> "bigint", le |-> StripZeros(leBytes)]

\* a byte read as a value: a number, or undefined outside the buffer
ByteV(b) == IF b = Undefined THEN UndefinedV ELSE NumV(b)

\* digits + 1, little-endian
RECURSIVE AddOne(_)
AddOne(digits) ==
  IF digits = <<>> THEN <<1>>
  ELSE IF digits[1] < 255 THEN <<digits[1] + 1>> \o Tail(digits)
  ELSE <<0>> \o AddOne(Tail(digits))

\* the negative bigint u - 2^n of the n-bit little-endian u, held by the
\* digits of its magnitude 2^n - u
NegBigIntV(leBytes) ==
  [k |-> "bigint",
   le |-> StripZeros(AddOne([i \in DOMAIN leBytes |-> 255 - leBytes[i]])),
   neg |-> TRUE]

\* obj[name] = value on an object held as its list of properties
SetField(fields, name, value) ==
  IF \E i \in DOMAIN fields : fields[i].name = name
  THEN [i \in DOMAIN fields |->
          IF fields[i].name = name THEN [name |-> name, value |-> value] ELSE fields[i]]
  ELSE Append(fields, [name |-> name, value |-> value])

\* the outcome of a read: the ReadResult returned, or the error thrown; reads
\* lists the offsets at which the reads of the call started
Ok(value, offset, reads) ==
  [ok |-> TRUE, value |-> value, offset |-> offset, reads |-> reads, err |-> ""]
Throw(err, reads) ==
  [ok |-> FALSE, value |-> UndefinedV, offset |-> 0, reads |-> reads, err |-> err]

\* ========================================================================
\* Contract metadata behind the generated v0.1.0 decoders
\* ========================================================================
SigNewGame ==
  <<
    "c", "8", "a", "7", "c", "5", "d", "8", "6", "c", "d", "a", "f", "4", "3", "5",
    "5", "5", "2", "7", "3", "e", "0", "8", "a", "0", "0", "e", "4", "c", "d", "a",
    "a", "9", "3", "c", "f", "2", "2", "0", "4", "6", "6", "8", "5", "2", "3", "1",
    "d", "5", "e", "b", "1", "b", "6", "c", "0", "d", "2", "9", "f", "a", "9", "2" >>

SigGuessMade ==
  <<
    "b", "f", "e", "3", "e", "4", "d", "e", "2", "3", "c", "5", "5", "6", "4", "0",
    "8", "a", "7", "c", "4", "0", "0", "b", "a", "f", "6", "b", "2", "7", "3", "6",
    "4", "b", "d", "b", "7", "6", "3", "5", "9", "5", "a", "c", "8", "f", "3", "5",
    "4", "7", "c", "2", "0", "d", "b", "7", "0", "1", "3", "1", "0", "8", "3", "a" >>

SigClueGiven ==
  <<
    "d", "3", "0", "c", "7", "5", "3", "e", "3", "0", "1", "2", "d", "9", "8", "d",
    "4", "2", "8", "a", "b", "d", "e", "3", "e", "e", "b", "a", "a", "e", "6", "2",
    "a", "0", "9", "d", "7", "d", "0", "4", "3", "d", "8", "0", "1", "8", "f", "1",
    "e", "c", "b", "4", "e", "6", "c", "5", "d", "3", "d", "c", "9", "4", "2", "9" >>

SigMetaTransactionDecoded ==
  <<
    "4", "e", "e", "6", "1", "a", "2", "0", "9", "2", "3", "3", "4", "a", "2", "8",
    "b", "8", "c", "e", "7", "3", "8", "9", "a", "8", "b", "a", "2", "a", "9", "c",
    "1", "a", "9", "9", "0", "9", "e", "0", "c", "9", "5", "b", "0", "1", "c", "b",
    "b", "a", "f", "b", "0", "7", "b", "7", "b", "b", "5", "7", "6", "0", "4", "8" >>

SigRoleGranted ==
  <<
    "9", "f", "c", "f", "c", "0", "8", "6", "9", "a", "8", "9", "d", "e", "6", "4",
    "6", "4", "b", "0", "6", "8", "9", "1", "f", "c", "f", "a", "0", "2", "6", "e",
    "1", "a", "c", "8", "0", "9", "c", "e", "0", "1", "3", "0", "0", "c", "d", "7",
    "6", "a", "3", "4", "2", "e", "6", "9", "6", "2", "9", "7", "d", "d", "2", "0" >>

SigRoleRevoked ==
  <<
    "6", "7", "c", "f", "5", "7", "3", "1", "b", "d", "e", "3", "e", "f", "7", "9",
    "0", "2", "9", "b", "3", "c", "6", "3", "e", "a", "7", "a", "4", "9", "b", "0",
    "e", "8", "1", "6", "d", "5", "3", "d", "6", "6", "5", "f", "f", "8", "8", "e",
    "4", "1", "2", "b", "6", "9", "6", "6", "8", "4", "a", "b", "9", "c", "1", "1" >>

SigMessageQueued ==
  <<
    "c", "f", "d", "8", "f", "7", "c", "e", "e", "6", "2", "3", "7", "6", "e", "0",
    "a", "8", "9", "4", "a", "1", "c", "5", "d", "1", "2", "4", "e", "c", "2", "1",
    "9", "d", "c", "6", "7", "8", "f", "d", "7", "4", "2", "b", "c", "b", "7", "f",
    "1", "8", "3", "4", "5", "5", "a", "3", "6", "2", "7", "4", "4", "a", "a", "1" >>

SigMessageProcessed ==
  <<
    "d", "b", "1", "d", "b", "b", "0", "6", "d", "6", "c", "5", "f", "6", "2", "b",
    "c", "d", "2", "d", "0", "b", "8", "e", "2", "b", "2", "5", "1", "8", "2", "6",
    "b", "4", "3", "e", "1", "5", "a", "2", "b", "1", "7", "b", "8", "0", "0", "8",
    "0", "8", "3", "7", "d", "c", "8", "c", "d", "5", "6", "1", "a", "2", "8", "3" >>

\* ------------------------------------------------------------------------
\* Type table and event specs of the metadata document
\* ------------------------------------------------------------------------
U8TypeId == 5
AddressLen == 20
TopicLen == 32

PrimitiveT(name) == [kind |-> "primitive", primitive |-> name, path |-> ""]
CompositeT(fields, path) == [kind |-> "composite", fields |-> fields, path |-> path]
VariantT(variants) == [kind |-> "variant", variants |-> variants, path |-> ""]
ArrayT(len, type) == [kind |-> "array", len |-> len, type |-> type, path |-> ""]
SequenceT(type) == [kind |-> "sequence", type |-> type, path |-> ""]

\* metadata.types, by id: 0..7 are the types the v0.1.0 events use, 8..18
\* further types of the shapes generateDecodeCall and decodeValue handle
Types ==
  [id \in 0..18 |->
     CASE id = 0 -> PrimitiveT("u128")
       [] id = 1 -> CompositeT(<<[name |-> "", type |-> 2]>>, "primitive_types.H160")
       [] id = 2 -> ArrayT(AddressLen, U8TypeId)
       [] id = 3 -> PrimitiveT("u16")
       [] id = 4 -> PrimitiveT("u32")
       [] id = 5 -> PrimitiveT("u8")
       [] id = 6 -> VariantT(<<[index |-> 0, name |-> "More", fields |-> <<>>],
                               [index |-> 1, name |-> "Less", fields |-> <<>>],
                               [index |-> 2, name |-> "Found", fields |-> <<>>]>>)
       [] id = 7 -> SequenceT(U8TypeId)
       [] id = 8 -> PrimitiveT("i8")
       [] id = 9 -> PrimitiveT("i16")
       [] id = 10 -> PrimitiveT("i32")
       [] id = 11 -> PrimitiveT("u64")
       [] id = 12 -> PrimitiveT("i64")
       [] id = 13 -> PrimitiveT("i128")
       [] id = 14 -> VariantT(<<[index |-> 2, name |-> "Up", fields |-> <<>>],
                                [index |-> 0, name |-> "Down", fields |-> <<>>]>>)
       [] id = 15 -> CompositeT(<<[name |-> "", type |-> 3], [name |-> "", type |-> 5]>>, "")
       [] id = 16 -> CompositeT(<<[name |-> "min", type |-> 3],
                                  [name |-> "inner", type |-> 15],
                                  [name |-> "tags", type |-> 7]>>, "")
       [] id = 17 -> SequenceT(3)
       [] id = 18 -> SequenceT(7)]

Arg(label, type, indexed) == [label |-> label, type |-> type, indexed |-> indexed]

\* metadata.spec.events: label, snake_case name, signature_topic, args
Events ==
  << [label |-> "NewGame", snake |-> "new_game", sig |-> SigNewGame,
      args |-> <<Arg("game_number", 0, TRUE), Arg("player", 1, TRUE),
                 Arg("min_number", 3, FALSE), Arg("max_number", 3, FALSE)>>],
     [label |-> "GuessMade", snake |-> "guess_made", sig |-> SigGuessMade,
      args |-> <<Arg("game_number", 0, TRUE), Arg("attempt", 4, FALSE),
                 Arg("guess", 3, FALSE)>>],
     [label |-> "ClueGiven", snake |-> "clue_given", sig |-> SigClueGiven,
      args |-> <<Arg("game_number", 0, TRUE), Arg("attempt", 4, FALSE),
                 Arg("guess", 3, FALSE), Arg("clue", 6, FALSE)>>],
     [label |-> "MetaTransactionDecoded", snake |-> "meta_transaction_decoded",
      sig |-> SigMetaTransactionDecoded, args |-> <<>>],
     [label |-> "RoleGranted", snake |-> "role_granted", sig |-> SigRoleGranted,
      args |-> <<Arg("role", 4, TRUE), Arg("grantee", 1, TRUE),
                 Arg("grantor", 1, FALSE)>>],
     [label |-> "RoleRevoked", snake |-> "role_revoked", sig |-> SigRoleRevoked,
      args |-> <<Arg("role", 4, TRUE), Arg("account", 1, TRUE),
                 Arg("sender", 1, FALSE)>>],
     [label |-> "MessageQueued", snake |-> "message_queued", sig |-> SigMessageQueued,
      args |-> <<Arg("id", 4, TRUE), Arg("data", 7, FALSE)>>],
     [label |-> "MessageProcessed", snake |-> "message_processed",
      sig |-> SigMessageProcessed, args |-> <<Arg("id", 4, TRUE)>>] >>

\* ========================================================================
\* Readers of support.ts
\* ========================================================================
readU8(buf, offset) == Ok(ByteV(ByteAt(buf, offset)), offset + 1, <<offset>>)

\* buf[offset] | (buf[offset + 1] << 8)
readU16(buf, offset) ==
  Ok(NumV(Int32Of(ByteAt(buf, offset)) + 256 * Int32Of(ByteAt(buf, offset + 1))),
     offset + 2, <<offset>>)

\* (b0 | b1 << 8 | b2 << 16 | b3 << 24) >>> 0
readU32(buf, offset) ==
  Ok(NumV(Int32Of(ByteAt(buf, offset)) + 256 * Int32Of(ByteAt(buf, offset + 1))
          + 65536 * Int32Of(ByteAt(buf, offset + 2))
          + 16777216 * Int32Of(ByteAt(buf, offset + 3))),
     offset + 4, <<offset>>)

\* the loop v |= BigInt(buf[offset + i]) << BigInt(i * 8) over width bytes;
\* BigInt(undefined) throws a TypeError
ReadBigInt(buf, offset, width) ==
  LET bytes == [i \in 1..width |-> ByteAt(buf, offset + i - 1)]
  IN IF \E i \in 1..width : bytes[i] = Undefined
     THEN Throw("TypeError", <<offset>>)
     ELSE Ok(BigIntV(bytes), offset + width, <<offset>>)

readU64(buf, offset) == ReadBigInt(buf, offset, 8)
readU128(buf, offset) == ReadBigInt(buf, offset, 16)

RECURSIVE LeValue(_)
LeValue(digits) ==
  IF digits = <<>> THEN 0 ELSE digits[1] + 256 * LeValue(Tail(digits))

\* Number(v) of a number or bigint value
NumberOf(v) == IF v.k = "bigint" THEN LeValue(v.le) ELSE v.n

\* a readCompactU32 that takes the upper 6 bits of a byte of mode 11 for the
\* count of the bytes behind it
readCompactU32ByteCount(buf, offset) ==
  LET b0 == Int32Of(ByteAt(buf, offset))
      flag == b0 % 4
  IN IF flag = 0 THEN Ok(NumV(b0 \div 4), offset + 1, <<offset>>)
     ELSE IF flag = 1
     THEN Ok(NumV((b0 + 256 * Int32Of(ByteAt(buf, offset + 1))) \div 4),
             offset + 2, <<offset>>)
     ELSE IF flag = 2
     THEN Ok(NumV((b0 + 256 * Int32Of(ByteAt(buf, offset + 1))
                      + 65536 * Int32Of(ByteAt(buf, offset + 2))) \div 4
                  + 4194304 * Int32Of(ByteAt(buf, offset + 3))),
             offset + 4, <<offset>>)
     ELSE LET byteLen == b0 \div 4
              r == ReadBigInt(buf, offset + 1, byteLen)
          IN IF r.ok THEN Ok(r.value, offset + 1 + byteLen, <<offset>>)
             ELSE Throw(r.err, <<offset>>)

readCompactU32(buf, offset) ==
  LET b0 == Int32Of(ByteAt(buf, offset))
      flag == b0 % 4
  IN IF flag = 0 THEN Ok(NumV(b0 \div 4), offset + 1, <<offset>>)
     ELSE IF flag = 1
     THEN Ok(NumV((b0 + 256 * Int32Of(ByteAt(buf, offset + 1))) \div 4),
             offset + 2, <<offset>>)
     ELSE IF flag = 2
     THEN \* (a | b << 8 | c << 16 | d << 24) >>> 2: d << 24 is a multiple of 4
          Ok(NumV((b0 + 256 * Int32Of(ByteAt(buf, offset + 1))
                      + 65536 * Int32Of(ByteAt(buf, offset + 2))) \div 4
                  + 4194304 * Int32Of(ByteAt(buf, offset + 3))),
             offset + 4, <<offset>>)
     ELSE LET byteLen == 4 + (b0 \div 4)
              r == ReadBigInt(buf, offset + 1, byteLen)
          IN IF r.ok THEN Ok(r.value, offset + 1 + byteLen, <<offset>>)
             ELSE Throw(r.err, <<offset>>)

readString(buf, offset) ==
  LET len == readCompactU32(buf, offset)
      start == len.offset
      end == start + NumberOf(len.value)
  IN IF ~len.ok THEN len
     ELSE Ok(TextV(Slice(buf, start, end)), end, len.reads)

\* ========================================================================
\* Generated decoders (generateEventsTs): what the code printed by
\* generateDecodeCall and generateEventDecoder computes
\* ========================================================================

\* typeof f.name: f.name || 'field' + idx
GenFieldName(f, idx) ==
  IF f.name # "" THEN f.name
  ELSE CASE idx = 0 -> "field0" [] idx = 1 -> "field1" [] idx = 2 -> "field2"
         [] OTHER -> "fieldN"

RECURSIVE BuildObject(_, _, _)
BuildObject(names, values, acc) ==
  IF names = <<>> THEN acc
  ELSE BuildObject(Tail(names), Tail(values), SetField(acc, names[1], values[1]))

\* the result of a run of decode calls
Each(ok, values, offset, reads, err) ==
  [ok |-> ok, values |-> values, offset |-> offset, reads |-> reads, err |-> err]

RECURSIVE generateDecodeCall(_, _, _)
RECURSIVE GenDecodeEach(_, _, _, _, _)

\* the decode calls of a list of types, each at the offset the one before
\* returned
GenDecodeEach(typeIds, buf, offset, values, reads) ==
  IF typeIds = <<>> THEN Each(TRUE, values, offset, reads, "")
  ELSE LET r == generateDecodeCall(typeIds[1], buf, offset)
       IN IF ~r.ok THEN Each(FALSE, values, offset, reads \o r.reads, r.err)
          ELSE GenDecodeEach(Tail(typeIds), buf, r.offset,
                             Append(values, r.value), reads \o r.reads)

GenPrimitive(primitive, buf, offset) ==
  CASE primitive = "u8" -> readU8(buf, offset)
    [] primitive = "u16" -> readU16(buf, offset)
    [] primitive = "u32" -> readU32(buf, offset)
    [] primitive = "u64" -> readU64(buf, offset)
    [] primitive = "u128" -> readU128(buf, offset)
    [] primitive = "i8" ->
         \* v is the ReadResult object: v > 127 is false and v is returned
         LET v == readU8(buf, offset)
         IN Ok(ObjectV(<<[name |-> "value", value |-> v.value],
                         [name |-> "offset", value |-> NumV(v.offset)]>>),
               offset + 1, v.reads)
    [] primitive = "i16" ->
         LET r == readU16(buf, offset)
         IN Ok(NumV(IF r.value.n > 32767 THEN r.value.n - 65536 ELSE r.value.n),
               r.offset, r.reads)
    [] primitive = "i32" ->
         LET r == readU32(buf, offset)
         IN Ok(NumV(IF r.value.n > 2147483647 THEN r.value.n - 65536 * 65536
                    ELSE r.value.n),
               r.offset, r.reads)
    [] primitive = "bool" ->
         Ok(BoolV(ByteAt(buf, offset) # 0), offset + 1, <<offset>>)
    [] primitive = "str" -> readString(buf, offset)
    [] OTHER -> Throw("Unsupported primitive", <<>>)

\* map[idx] || 'Unknown' over the names of the unit variants in declaration
\* order
GenUnitVariantName(names, idx) ==
  IF idx # Undefined /\ idx < Len(names) THEN StrV(names[idx + 1]) ELSE StrV("Unknown")

\* the switch over the discriminant of a variant some of whose cases carry
\* fields
GenFieldVariant(variants, buf, offset) ==
  LET discriminant == ByteAt(buf, offset)
      variantOffset == offset + 1
      hits == {i \in DOMAIN variants : variants[i].index = discriminant}
  IN IF discriminant = Undefined \/ hits = {}
     THEN Ok(ObjectV(<<[name |-> "tag", value |-> StrV("UnknownVariant")],
                       [name |-> "index", value |-> ByteV(discriminant)]>>),
             variantOffset, <<offset>>)
     ELSE LET v == variants[CHOOSE i \in hits : \A j \in hits : i <= j]
              r == GenDecodeEach([i \in DOMAIN v.fields |-> v.fields[i].type],
                                 buf, variantOffset, <<>>, <<offset>>)
              hasNamedFields == \E i \in DOMAIN v.fields : v.fields[i].name # ""
          IN IF v.fields = <<>> THEN Ok(StrV(v.name), variantOffset, <<offset>>)
             ELSE IF ~r.ok THEN Throw(r.err, r.reads)
             ELSE IF hasNamedFields
             THEN Ok(ObjectV(BuildObject(
                        [i \in DOMAIN v.fields |-> GenFieldName(v.fields[i], i - 1)],
                        r.values, <<[name |-> "tag", value |-> StrV(v.name)]>>)),
                     r.offset, r.reads)
             ELSE Ok(ObjectV(<<[name |-> "tag", value |-> StrV(v.name)],
                               [name |-> "value", value |-> ListV(r.values)]>>),
                     r.offset, r.reads)

generateDecodeCall(typeId, buf, offset) ==
  IF typeId \notin DOMAIN Types THEN Throw("Unknown type", <<>>)
  ELSE LET t == Types[typeId]
       IN CASE t.kind = "primitive" -> GenPrimitive(t.primitive, buf, offset)
            [] t.kind = "composite" ->
                 LET r == GenDecodeEach([i \in DOMAIN t.fields |-> t.fields[i].type],
                                        buf, offset, <<>>, <<>>)
                 IN IF ~r.ok THEN Throw(r.err, r.reads)
                    ELSE Ok(ObjectV(BuildObject(
                               [i \in DOMAIN t.fields |-> GenFieldName(t.fields[i], i - 1)],
                               r.values, <<>>)),
                            r.offset, r.reads)
            [] t.kind = "variant" ->
                 IF \A i \in DOMAIN t.variants : t.variants[i].fields = <<>>
                 THEN Ok(GenUnitVariantName([i \in DOMAIN t.variants |-> t.variants[i].name],
                                            ByteAt(buf, offset)),
                         offset + 1, <<offset>>)
                 ELSE GenFieldVariant(t.variants, buf, offset)
            [] t.kind = "sequence" ->
                 LET len == readCompactU32(buf, offset)
                     start == len.offset
                     count == NumberOf(len.value)
                     r == GenDecodeEach([i \in 1..count |-> t.type], buf, start,
                                        <<>>, len.reads)
                 IN IF ~len.ok THEN len
                    ELSE IF t.type = U8TypeId
                    THEN Ok(BytesV(Slice(buf, start, start + count)), start + count,
                            len.reads)
                    ELSE IF ~r.ok THEN Throw(r.err, r.reads)
                    ELSE Ok(ListV(r.values), r.offset, r.reads)
            [] t.kind = "array" ->
                 LET r == GenDecodeEach([i \in 1..t.len |-> t.type], buf, offset,
                                        <<>>, <<>>)
                 IN IF ~r.ok THEN Throw(r.err, r.reads)
                    ELSE Ok(ListV(r.values), r.offset, r.reads)
            [] t.path = "primitive_types.H160" ->
                 IF offset + AddressLen <= Len(buf)
                 THEN Ok(HexV(bytesToHex(Slice(buf, offset, offset + AddressLen))),
                         offset + AddressLen, <<offset>>)
                 ELSE Throw("H160 read overflow", <<offset>>)
            [] OTHER -> Throw("Unsupported type", <<>>)

\* the block generateEventDecoder prints for an indexed argument
GenIndexedArg(arg, topics, st) ==
  IF ~(st.topicIndex < Len(topics))
  THEN [st EXCEPT !.ok = FALSE, !.err = "Missing topic"]
  ELSE LET t == topics[st.topicIndex + 1]
           tb == hexToBytes(t)
           tdef == IF arg.type \in DOMAIN Types THEN Types[arg.type]
                   ELSE [kind |-> "none", path |-> ""]
           value ==
             IF tdef.kind = "primitive" /\ tdef.primitive = "u128"
             THEN readU128(tb, 0).value
             ELSE IF tdef.path = "primitive_types.H160"
             THEN HexV(bytesToHex(Slice(tb, Len(tb) - AddressLen, Len(tb))))
             ELSE IF tdef.kind = "primitive" /\ tdef.primitive = "u32"
             THEN readU32(tb, 0).value
             ELSE IF tdef.kind = "primitive" /\ tdef.primitive = "u16"
             THEN readU16(tb, 0).value
             ELSE HexV(t)
       IN IF ~(Len(tb) >= TopicLen)
          THEN [st EXCEPT !.ok = FALSE, !.err = "Invalid topic length",
                          !.topicIndex = st.topicIndex + 1]
          ELSE [st EXCEPT !.topicIndex = st.topicIndex + 1,
                          !.result = SetField(st.result, arg.label, value)]

\* the block generateEventDecoder prints for a non-indexed argument
GenDataArg(arg, data, st) ==
  IF ~(st.offset <= Len(data))
  THEN [st EXCEPT !.ok = FALSE, !.err = "Offset overflow"]
  ELSE LET r == generateDecodeCall(arg.type, data, st.offset)
       IN IF ~r.ok
          THEN [st EXCEPT !.ok = FALSE, !.err = r.err, !.reads = st.reads \o r.reads]
          ELSE [st EXCEPT !.result = SetField(st.result, arg.label, r.value),
                          !.offset = r.offset,
                          !.reads = st.reads \o r.reads,
                          !.argOffsets = Append(st.argOffsets,
                              [label |-> arg.label, start |-> st.offset, end |-> r.offset])]

RECURSIVE GenArgs(_, _, _, _)
GenArgs(args, data, topics, st) ==
  IF args = <<>> \/ ~st.ok THEN st
  ELSE GenArgs(Tail(args), data, topics,
               IF args[1].indexed THEN GenIndexedArg(args[1], topics, st)
               ELSE GenDataArg(args[1], data, st))

\* the state of one decode call: result record, data offset, topic index,
\* the offsets of the reads on the data buffer and of the arguments decoded
DecodeStart ==
  [ok |-> TRUE, err |-> "", result |-> <<>>, offset |-> 0, topicIndex |-> 1,
   reads |-> <<>>, argOffsets |-> <<>>]

\* decode<Label>(dataHex, topics) as generateEventDecoder prints it
generateEventDecoder(e, dataHex, topics) ==
  GenArgs(e.args, hexToBytes(dataHex), topics, DecodeStart)

\* what a decodeEvent call leaves: the record returned, null, or the error
Outcome(decoder, status, err, label, eventType, st) ==
  [decoder |-> decoder, status |-> status, err |-> err, label |-> label,
   eventType |-> eventType,
   data |-> st.result, offset |-> st.offset, reads |-> st.reads,
   argOffsets |-> st.argOffsets]

\* switch (signatureHex) of the generated decodeEvent
GenLookup(signatureHex) == {i \in DOMAIN Events : Events[i].sig = signatureHex}

\* decodeEvent(signatureHex, dataHex, topics) of the generated events.ts
decodeEvent(signatureHex, dataHex, topics) ==
  LET hits == GenLookup(signatureHex)
  IN IF hits = {} THEN Outcome("generated", "null", "", "", "", DecodeStart)
     ELSE LET e == Events[CHOOSE i \in hits : TRUE]
              st == generateEventDecoder(e, dataHex, topics)
          IN IF st.ok THEN Outcome("generated", "ok", "", e.label, e.snake, st)
             ELSE Outcome("generated", "throw", st.err, e.label, e.snake, st)

\* ========================================================================
\* SubsquidInkDecoder (subsquid-inkv6-decoder.ts)
\* ========================================================================

\* bytes[offset] | bytes[offset+1] << 8 | bytes[offset+2] << 16 |
\* bytes[offset+3] << 24, a signed 32-bit result
SubReadU32(bytes, offset) ==
  LET b3 == Int32Of(ByteAt(bytes, offset + 3))
  IN Int32Of(ByteAt(bytes, offset)) + 256 * Int32Of(ByteAt(bytes, offset + 1))
     + 65536 * Int32Of(ByteAt(bytes, offset + 2))
     + 16777216 * (IF b3 >= 128 THEN b3 - 256 ELSE b3)

SubReadU16(bytes, offset) ==
  Int32Of(ByteAt(bytes, offset)) + 256 * Int32Of(ByteAt(bytes, offset + 1))

decodeString(bytes, offset) ==
  LET length == SubReadU32(bytes, offset)
  IN Ok(TextV(Slice(bytes, offset + 4, offset + 4 + length)), offset + 4 + length,
        <<offset>>)

\* value > 127 ? value - 256 : value; undefined > 127 is false
readI8(bytes, offset) ==
  LET value == ByteAt(bytes, offset)
  IN IF value = Undefined THEN UndefinedV
     ELSE NumV(IF value > 127 THEN value - 256 ELSE value)

readI16(bytes, offset) ==
  LET value == SubReadU16(bytes, offset)
  IN IF value > 32767 THEN value - 65536 ELSE value

\* readU32 returns a signed 32-bit number, which is never > 2147483647
readI32(bytes, offset) == SubReadU32(bytes, offset)

\* readI64 and readI128: value > 2^(n-1) - 1 ? value - 2^n : value
ReadSignedBigInt(bytes, offset, width) ==
  LET r == ReadBigInt(bytes, offset, width)
      leBytes == [i \in 1..width |-> ByteAt(bytes, offset + i - 1)]
  IN IF r.ok /\ leBytes[width] >= 128
     THEN Ok(NegBigIntV(leBytes), offset + width, <<offset>>)
     ELSE r

decodePrimitive(bytes, offset, primitive) ==
  CASE primitive = "u8" -> Ok(ByteV(ByteAt(bytes, offset)), offset + 1, <<offset>>)
    [] primitive = "u16" -> Ok(NumV(SubReadU16(bytes, offset)), offset + 2, <<offset>>)
    [] primitive = "u32" -> Ok(NumV(SubReadU32(bytes, offset)), offset + 4, <<offset>>)
    [] primitive = "u64" -> ReadBigInt(bytes, offset, 8)
    [] primitive = "u128" -> ReadBigInt(bytes, offset, 16)
    [] primitive = "i8" -> Ok(readI8(bytes, offset), offset + 1, <<offset>>)
    [] primitive = "i16" -> Ok(NumV(readI16(bytes, offset)), offset + 2, <<offset>>)
    [] primitive = "i32" -> Ok(NumV(readI32(bytes, offset)), offset + 4, <<offset>>)
    [] primitive = "i64" -> ReadSignedBigInt(bytes, offset, 8)
    [] primitive = "i128" -> ReadSignedBigInt(bytes, offset, 16)
    [] primitive = "bool" -> Ok(BoolV(ByteAt(bytes, offset) # 0), offset + 1, <<offset>>)
    [] primitive = "str" -> decodeString(bytes, offset)
    [] OTHER -> Throw("Unsupported primitive type", <<>>)

\* variant.variants[variantIndex], by position in the list
decodeVariant(bytes, offset, variants) ==
  LET variantIndex == ByteAt(bytes, offset)
  IN IF variantIndex = Undefined \/ variantIndex >= Len(variants)
     THEN Throw("Invalid variant index", <<offset>>)
     ELSE Ok(StrV(variants[variantIndex + 1].name), offset + 1, <<offset>>)

\* fields[0].type is a type id, a number, so typeof fieldType === 'string'
\* is false for every metadata document
isAddressType(typeDef) == FALSE

RECURSIVE decodeValue(_, _, _)
RECURSIVE decodeComposite(_, _, _, _, _)
RECURSIVE SubDecodeList(_, _, _, _, _)

\* the loop of decodeComposite: a field whose type is unknown is skipped
decodeComposite(fields, bytes, currentOffset, result, reads) ==
  IF fields = <<>> THEN Ok(ObjectV(result), currentOffset, reads)
  ELSE IF fields[1].type \notin DOMAIN Types
  THEN decodeComposite(Tail(fields), bytes, currentOffset, result, reads)
  ELSE LET r == decodeValue(bytes, currentOffset, fields[1].type)
           name == IF fields[1].name # "" THEN fields[1].name ELSE "field"
       IN IF ~r.ok THEN Throw(r.err, reads \o r.reads)
          ELSE decodeComposite(Tail(fields), bytes, r.offset,
                               SetField(result, name, r.value), reads \o r.reads)

\* the loops of decodeArray and decodeTuple: an element whose type is unknown
\* is skipped
SubDecodeList(typeIds, bytes, currentOffset, result, reads) ==
  IF typeIds = <<>> THEN Ok(ListV(result), currentOffset, reads)
  ELSE IF typeIds[1] \notin DOMAIN Types
  THEN SubDecodeList(Tail(typeIds), bytes, currentOffset, result, reads)
  ELSE LET r == decodeValue(bytes, currentOffset, typeIds[1])
       IN IF ~r.ok THEN Throw(r.err, reads \o r.reads)
          ELSE SubDecodeList(Tail(typeIds), bytes, r.offset,
                             Append(result, r.value), reads \o r.reads)

\* decodeValue(bytes, offset, typeCache.get(typeId))
decodeValue(bytes, offset, typeId) ==
  LET t == Types[typeId]
  IN CASE t.kind = "primitive" -> decodePrimitive(bytes, offset, t.primitive)
       [] t.kind = "composite" -> decodeComposite(t.fields, bytes, offset, <<>>, <<>>)
       [] t.kind = "variant" -> decodeVariant(bytes, offset, t.variants)
       [] t.kind = "array" ->
            SubDecodeList([i \in 1..t.len |-> t.type], bytes, offset, <<>>, <<>>)
       [] t.kind = "tuple" -> SubDecodeList(t.members, bytes, offset, <<>>, <<>>)
       [] OTHER -> Throw("Unsupported type definition", <<>>)

\* first loop of decodeEventData: the indexed arguments, from the topics; an
\* indexed argument beyond the last topic is passed over
RECURSIVE SubIndexedArgs(_, _, _)
SubIndexedArgs(args, topics, st) ==
  IF args = <<>> \/ ~st.ok THEN st
  ELSE IF ~args[1].indexed \/ ~(st.topicIndex < Len(topics))
  THEN SubIndexedArgs(Tail(args), topics, st)
  ELSE IF args[1].type \notin DOMAIN Types
  THEN SubIndexedArgs(Tail(args), topics, [st EXCEPT !.topicIndex = st.topicIndex + 1])
  ELSE LET r == decodeValue(hexToBytes(topics[st.topicIndex + 1]), 0, args[1].type)
       IN IF ~r.ok THEN [st EXCEPT !.ok = FALSE, !.err = r.err]
          ELSE SubIndexedArgs(Tail(args), topics,
                 [st EXCEPT !.topicIndex = st.topicIndex + 1,
                            !.result = SetField(st.result, args[1].label, r.value)])

\* second loop of decodeEventData: dataOffset is moved past an encoding of
\* every indexed argument in the data buffer
RECURSIVE SubSkipIndexed(_, _, _)
SubSkipIndexed(args, eventBytes, st) ==
  IF args = <<>> \/ ~st.ok THEN st
  ELSE IF ~args[1].indexed \/ args[1].type \notin DOMAIN Types
  THEN SubSkipIndexed(Tail(args), eventBytes, st)
  ELSE LET r == decodeValue(eventBytes, st.offset, args[1].type)
       IN IF ~r.ok THEN [st EXCEPT !.ok = FALSE, !.err = r.err,
                                   !.reads = st.reads \o r.reads]
          ELSE SubSkipIndexed(Tail(args), eventBytes,
                 [st EXCEPT !.offset = r.offset, !.reads = st.reads \o r.reads])

\* third loop of decodeEventData: the non-indexed arguments, from dataOffset
RECURSIVE SubDataArgs(_, _, _)
SubDataArgs(args, eventBytes, st) ==
  IF args = <<>> \/ ~st.ok THEN st
  ELSE IF args[1].indexed \/ args[1].type \notin DOMAIN Types
  THEN SubDataArgs(Tail(args), eventBytes, st)
  ELSE LET r == decodeValue(eventBytes, st.offset, args[1].type)
       IN IF ~r.ok THEN [st EXCEPT !.ok = FALSE, !.err = r.err,
                                   !.reads = st.reads \o r.reads]
          ELSE SubDataArgs(Tail(args), eventBytes,
                 [st EXCEPT !.result = SetField(st.result, args[1].label, r.value),
                            !.offset = r.offset,
                            !.reads = st.reads \o r.reads,
                            !.argOffsets = Append(st.argOffsets,
                                [label |-> args[1].label, start |-> st.offset,
                                 end |-> r.offset])])

decodeEventData(eventBytes, eventMetadata, topics) ==
  SubDataArgs(eventMetadata.args, eventBytes,
    SubSkipIndexed(eventMetadata.args, eventBytes,
      SubIndexedArgs(eventMetadata.args, topics, DecodeStart)))

\* eventCache.get(signatureHex): keys are the signature_topic of the metadata
\* without its 0x prefix
EventCacheGet(signatureHex) ==
  {i \in DOMAIN Events : Strip0x(<<"0", "x">> \o Events[i].sig) = signatureHex}

\* eventTypeMapping of createGuessTheNumberDecoder, else label.toLowerCase()
SubEventType(label) ==
  CASE label = "NewGame" -> "game_started"
    [] label = "GuessMade" -> "guess_submitted"
    [] label = "ClueGiven" -> "clue_given"
    [] label = "MetaTransactionDecoded" -> "metatransactiondecoded"
    [] label = "RoleGranted" -> "rolegranted"
    [] label = "RoleRevoked" -> "rolerevoked"
    [] label = "MessageQueued" -> "messagequeued"
    [] label = "MessageProcessed" -> "messageprocessed"

\* SubsquidInkDecoder.decodeEvent(eventData, topics): errors are caught and
\* give null
SubsquidInkDecoder_decodeEvent(eventData, topics) ==
  IF Len(topics) = 0 THEN Outcome("subsquid", "null", "", "", "", DecodeStart)
  ELSE LET signatureHex == Strip0x(topics[1])
           hits == EventCacheGet(signatureHex)
       IN IF hits = {} THEN Outcome("subsquid", "null", "", "", "", DecodeStart)
          ELSE LET e == Events[CHOOSE i \in hits : TRUE]
                   st == decodeEventData(hexToBytes(eventData), e, topics)
               IN IF st.ok THEN Outcome("subsquid", "ok", "", e.label, SubEventType(e.label), st)
                  ELSE Outcome("subsquid", "null", st.err, e.label, SubEventType(e.label), st)

\* ------------------------------------------------------------------------
\* Inputs of the registry operations
\* ------------------------------------------------------------------------
AddrLower == <<"0", "x", "e", "7">>
AddrUpper == <<"0", "x", "E", "7">>
AddrOther == <<"0", "x", "b", "2">>

QueryAddresses == {AddrLower, AddrUpper, AddrOther}
AddressLists == {<<>>, <<AddrLower>>, <<AddrOther, AddrLower>>}
VersionTags == {"v0.1.0", "v0.2.0"}
Heights == 0..MaxHeight
FromValues == {Undefined} \cup Heights
ToValues == {Undefined, Null} \cup Heights

\* no merge made by the last run of the generator
NoMerge ==
  [called |-> FALSE, version |-> "", addresses |-> <<>>, from |-> Undefined,
   to |-> Undefined, existingAfter |-> <<>>]

NoResolve ==
  [address |-> <<>>, blockHeight |-> 0, addressMatches |-> <<>>,
   rangeMatches |-> <<>>, candidates |-> <<>>, status |-> "none", version |-> ""]

\* ------------------------------------------------------------------------
\* Inputs of the decode operations
\* ------------------------------------------------------------------------
RECURSIVE SeqsUpTo(_, _)
SeqsUpTo(S, n) ==
  IF n = 0 THEN {<<>>}
  ELSE LET shorter == SeqsUpTo(S, n - 1)
       IN shorter \cup {Append(q, x) : q \in shorter, x \in S}

Zeros(n) == [i \in 1..n |-> 0]

\* a signature no event of the metadata has
SigUnknown == [i \in 1..64 |-> "0"]

SigInputs ==
  {Events[i].sig : i \in DOMAIN Events}
    \cup {<<"0", "x">> \o SigNewGame, ToUpperCase(SigNewGame), SigUnknown}

\* the contract address 0xe75cbd47620dbb2053cf2a98d06840f06baaf141
ContractAddressBytes ==
  <<231, 92, 189, 71, 98, 13, 187, 32, 83, 207, 42, 152, 208, 104, 64, 240, 107, 170, 241, 65>>

\* topics: the number 1 little-endian, an H160 right-aligned, a topic that is
\* too short
TopicOne == bytesToHex(<<1>> \o Zeros(TopicLen - 1))
TopicAddr == bytesToHex(Zeros(TopicLen - AddressLen) \o ContractAddressBytes)
TopicShort == bytesToHex(<<1>>)
TopicPool == {TopicOne, TopicAddr, TopicShort}

\* payloads: an encoding of leading fields (min_number; attempt and guess;
\* game_number, attempt and guess), then any bytes
DataByteVals == {0, 2, 5}
DataPrefixes ==
  {<<>>, <<1, 0>>, <<1, 0, 0, 0, 5, 0>>, <<1>> \o Zeros(15) \o <<1, 0, 0, 0, 5, 0>>}
DataInputs ==
  {bytesToHex(p \o t) : p \in DataPrefixes, t \in SeqsUpTo(DataByteVals, MaxTailLen)}

CallInputs ==
  {[signatureHex |-> s, dataHex |-> d, topics |-> <<s>> \o t] :
      s \in SigInputs, d \in DataInputs, t \in SeqsUpTo(TopicPool, MaxTopics)}
    \cup {[signatureHex |-> s, dataHex |-> d, topics |-> <<>>] :
            s \in SigInputs, d \in DataInputs}

NoCall == [signatureHex |-> <<>>, dataHex |-> <<>>, topics |-> <<>>]
NoOutcome == Outcome("none", "none", "", "", "", DecodeStart)

\* inputs of a call that is made more than once, and the events decoded
\* between its calls: a NewGame and a GuessMade that decode
RepeatInputs ==
  {[signatureHex |-> s, dataHex |-> bytesToHex(p), topics |-> <<s>> \o t] :
      s \in SigInputs, p \in DataPrefixes, t \in SeqsUpTo(TopicPool, MaxTopics)}

OtherInputs ==
  {[signatureHex |-> SigNewGame, dataHex |-> bytesToHex(<<1, 0, 5, 0>>),
    topics |-> <<SigNewGame, TopicOne, TopicAddr>>],
   [signatureHex |-> SigGuessMade, dataHex |-> bytesToHex(<<1, 0, 0, 0, 5, 0>>),
    topics |-> <<SigGuessMade, TopicOne>>]}

Decoders == {"generated", "subsquid"}

\* decodeEvent of one of the two decoders
DecodeBy(decoder, c) ==
  IF decoder = "generated"
  THEN decodeEvent(c.signatureHex, c.dataHex, c.topics)
  ELSE SubsquidInkDecoder_decodeEvent(c.dataHex, c.topics)

\* a decoder whose result array and cursor are shared by all its calls: a
\* call appends to what the call before it left
ReturnedWithSharedResult(previous, fresh) ==
  [fresh EXCEPT !.data = previous.data \o fresh.data,
                !.offset = previous.offset + fresh.offset]

\* what a call returns, given what the call before it returned: the record
\* built in this call from offset 0; neither decoder keeps a cursor or a
\* result between calls
ReturnedByCall(previous, fresh) == fresh

\* ========================================================================
\* Target contracts and batches of chain events (Logger, getContractEvents)
\* ========================================================================
\* String.prototype.split(sep)
RECURSIVE Split(_, _)
Split(s, sep) ==
  IF ~\E i \in DOMAIN s : s[i] = sep THEN <<s>>
  ELSE LET i == CHOOSE k \in DOMAIN s : s[k] = sep /\ \A j \in 1..(k - 1) : s[j] # sep
       IN <<SubSeq(s, 1, i - 1)>> \o Split(SubSeq(s, i + 1, Len(s)), sep)

\* String.prototype.trim(), for strings whose only white space is the blank
RECURSIVE Trim(_)
Trim(s) ==
  IF s = <<>> THEN s
  ELSE IF s[1] = " " THEN Trim(Tail(s))
  ELSE IF s[Len(s)] = " " THEN Trim(SubSeq(s, 1, Len(s) - 1))
  ELSE s

\* process.env.TARGET_CONTRACTS: not set, or a string
EnvUnset == [defined |-> FALSE, chars |-> <<>>]
EnvString(chars) == [defined |-> TRUE, chars |-> chars]

\* the address 0xe75cbd47620dbb2053cf2a98d06840f06baaf141 the Logger falls
\* back to; addresses are held by their first byte
DefaultTargetContracts == AddrLower

\* static initializer of Logger: (process.env.TARGET_CONTRACTS || default)
\* .split(',').map(addr => addr.trim())
LoggerTargetContracts(e) ==
  LET text == IF ~e.defined \/ e.chars = <<>> THEN DefaultTargetContracts ELSE e.chars
      parts == Split(text, ",")
  IN [i \in DOMAIN parts |-> Trim(parts[i])]

\* Logger.getTargetContracts(): a copy of the list
getTargetContracts(loaded) == loaded.list

NotLoaded == [loaded |-> FALSE, list |-> <<>>]

\* an event of a block: its name and, for Revive.ContractEmitted, the args
\* contract (may be missing), data and topics
ChainEvent(name, hasContract, contract, data, topics) ==
  [name |-> name, hasContract |-> hasContract, contract |-> contract,
   data |-> data, topics |-> topics]

ContractEmitted(contract, sig, data, topics) ==
  ChainEvent("Revive.ContractEmitted", TRUE, contract, bytesToHex(data),
             <<(<<"0", "x">> \o sig)>> \o topics)

\* an event of another pallet
OtherEvent == ChainEvent("System.ExtrinsicSuccess", FALSE, <<>>, <<>>, <<>>)

\* x || d for a decoded value
FalsyV(v) ==
  \/ v.k \in {"undefined", "null"}
  \/ v.k = "number" /\ v.n = 0
  \/ v.k = "bigint" /\ v.le = <<>>
  \/ v.k = "string" /\ v.s = ""
  \/ v.k = "boolean" /\ ~v.b
OrDefault(v, d) == IF FalsyV(v) THEN d ELSE v

\* obj[name]: undefined when the object has no such property
Prop(fields, name) ==
  IF \E i \in DOMAIN fields : fields[i].name = name
  THEN fields[CHOOSE i \in DOMAIN fields : fields[i].name = name].value
  ELSE UndefinedV

\* convertToSS58 of a hex string: an address of 20 bytes is padded to 32 and
\* encoded, one of 32 bytes is encoded, any other string is returned as it is;
\* the encoding is held as the bytes it encodes
convertToSS58(hexAddress) ==
  LET cleanHex == Strip0x(hexAddress)
  IN IF Len(cleanHex) = 2 * AddressLen
     THEN [ss58 |-> Zeros(TopicLen - AddressLen) \o hexToBytes(cleanHex)]
     ELSE IF Len(cleanHex) = 2 * TopicLen
     THEN [ss58 |-> hexToBytes(cleanHex)]
     ELSE [text |-> hexAddress]

\* createTypedEvent: one typed event per known event type, null otherwise
createTypedEvent(id, blockNumber, contractAddress, decodedEvent) ==
  LET d == decodedEvent.data
      base == [id |-> id, blockNumber |-> blockNumber, contractAddress |-> contractAddress,
               eventType |-> decodedEvent.eventType,
               gameNumber |-> OrDefault(Prop(d, "game_number"), NumV(0))]
  IN CASE decodedEvent.eventType = "game_started" ->
            <<base @@ [player |-> OrDefault(Prop(d, "player"), StrV("")),
                       minNumber |-> OrDefault(Prop(d, "min_number"), NumV(0)),
                       maxNumber |-> OrDefault(Prop(d, "max_number"), NumV(0))]>>
       [] decodedEvent.eventType = "guess_submitted" ->
            <<base @@ [attemptNumber |-> OrDefault(Prop(d, "attempt"), NumV(0)),
                       guess |-> OrDefault(Prop(d, "guess"), NumV(0))]>>
       [] decodedEvent.eventType = "clue_given" ->
            <<base @@ [attemptNumber |-> OrDefault(Prop(d, "attempt"), NumV(0)),
                       guess |-> OrDefault(Prop(d, "guess"), NumV(0)),
                       result |-> OrDefault(Prop(d, "clue"), StrV(""))]>>
       [] OTHER -> <<>>

\* eventDataKey: event type, game_number, attempt, guess and clue || ''
EventDataKey(decodedEvent) ==
  LET d == decodedEvent.data
  IN <<decodedEvent.eventType, Prop(d, "game_number"), Prop(d, "attempt"),
       Prop(d, "guess"), OrDefault(Prop(d, "clue"), StrV(""))>>

\* what the loop of getContractEvents has built so far: the typed events, the
\* keys of the decoded events seen, the indexes of the events handed to the
\* decoder, and whether an error left the loop
BatchStart ==
  [contractEvents |-> <<>>, processedEventData |-> {}, passedToDecoder |-> <<>>,
   errors |-> <<>>, thrown |-> FALSE]

\* an error thrown in the body of the loop and not caught ends the function
Uncaught(acc, eventIndex) ==
  [acc EXCEPT !.thrown = TRUE, !.errors = Append(acc.errors, eventIndex)]

\* try { ... } catch (error) { Logger.error(...) }: logged, the loop goes on
Caught(acc, eventIndex) ==
  [acc EXCEPT !.errors = Append(acc.errors, eventIndex)]

\* the body of the loop for the event at eventIndex (counted from 0)
ProcessChainEvent(targets, height, event, eventIndex, acc) ==
  IF event.name # "Revive.ContractEmitted" THEN acc
  ELSE IF ~event.hasContract THEN Caught(acc, eventIndex)
  ELSE IF ~Includes(targets, ToLowerCase(event.contract)) THEN acc
  ELSE LET decodedEvent == SubsquidInkDecoder_decodeEvent(event.data, event.topics)
           passed == [acc EXCEPT !.passedToDecoder = Append(acc.passedToDecoder, eventIndex)]
       IN IF decodedEvent.status # "ok" THEN passed
          ELSE IF EventDataKey(decodedEvent) \in acc.processedEventData THEN passed
          ELSE [passed EXCEPT
                  !.processedEventData = acc.processedEventData \cup {EventDataKey(decodedEvent)},
                  !.contractEvents =
                     acc.contractEvents \o
                       createTypedEvent(<<height, eventIndex, convertToSS58(event.contract)>>,
                                        height, event.contract, decodedEvent)]

RECURSIVE ProcessChainEvents(_, _, _, _, _)
ProcessChainEvents(targets, height, events, eventIndex, acc) ==
  IF acc.thrown \/ eventIndex >= Len(events) THEN acc
  ELSE ProcessChainEvents(targets, height, events, eventIndex + 1,
         ProcessChainEvent(targets, height, events[eventIndex + 1], eventIndex, acc))

\* getContractEvents for a batch of one block
getContractEvents(targets, block) ==
  ProcessChainEvents(targets, block.height, block.events, 0, BatchStart)

\* ========================================================================
\* GameManager (game-manager.ts)
\* ========================================================================
\* a Map held as a function from the keys it has
NoGames == <<>>
MapHas(map, key) == key \in DOMAIN map
MapSet(map, key, value) ==
  [k \in DOMAIN map \cup {key} |-> IF k = key THEN value ELSE map[k]]

\* a GameEvent; the optional properties hold undefined when absent
GameEvent(eventType, gameNumber, player, minNumber, maxNumber, attemptNumber, guess, result) ==
  [contractAddress |-> AddrLower, eventType |-> eventType, gameNumber |-> gameNumber,
   player |-> player, minNumber |-> minNumber, maxNumber |-> maxNumber,
   attemptNumber |-> attemptNumber, guess |-> guess, result |-> result]

\* gameKey: convertToSS58(event.contractAddress), a dash, event.gameNumber
GameKey(event) == <<convertToSS58(event.contractAddress), event.gameNumber>>

\* new Game({...}) of processGameEvent
NewGame(gameKey, event) ==
  [id |-> gameKey, gameNumber |-> event.gameNumber,
   player |-> OrDefault(event.player, StrV("unknown")),
   minNumber |-> OrDefault(event.minNumber, NumV(0)),
   maxNumber |-> OrDefault(event.maxNumber, NumV(100)),
   attempt |-> NumV(0), lastGuess |-> UndefinedV, lastClue |-> UndefinedV,
   guessHistory |-> <<>>]

GuessHistoryItem(attemptNumber, guess, result) ==
  [attemptNumber |-> attemptNumber, guess |-> guess, result |-> result]

\* a guess event that would also start a game
StartsGameAlways(event) == TRUE

\* event.eventType === 'game_started': the one event a game is created for
StartsGame(event) == event.eventType = "game_started"

\* a guess_submitted case that takes the attempt of every guess, without
\* asking whether it is more recent
AfterGuessSubmittedLatest(game, event) ==
  [game EXCEPT
     !.attempt = IF ~FalsyV(event.attemptNumber) THEN event.attemptNumber
                 ELSE game.attempt,
     !.lastGuess = IF event.guess # UndefinedV THEN event.guess ELSE game.lastGuess,
     !.guessHistory =
        Append(game.guessHistory,
               GuessHistoryItem(OrDefault(event.attemptNumber, NumV(0)),
                                OrDefault(event.guess, NumV(0)), StrV("Pending")))]

\* case 'guess_submitted'
AfterGuessSubmitted(game, event) ==
  [game EXCEPT
     !.attempt = IF ~FalsyV(event.attemptNumber) /\ event.attemptNumber.n > game.attempt.n
                 THEN event.attemptNumber ELSE game.attempt,
     !.lastGuess = IF event.guess # UndefinedV THEN event.guess ELSE game.lastGuess,
     !.guessHistory =
        Append(game.guessHistory,
               GuessHistoryItem(OrDefault(event.attemptNumber, NumV(0)),
                                OrDefault(event.guess, NumV(0)), StrV("Pending")))]

\* case 'clue_given'
AfterClueGiven(game, event) ==
  LET n == Len(game.guessHistory)
  IN [game EXCEPT
        !.lastClue = IF ~FalsyV(event.attemptNumber)
                        /\ event.attemptNumber.n >= game.attempt.n
                     THEN event.result ELSE game.lastClue,
        !.guessHistory =
           IF n > 0 /\ game.guessHistory[n].attemptNumber = event.attemptNumber
           THEN [game.guessHistory EXCEPT
                   ![n].result = OrDefault(event.result, StrV("Unknown"))]
           ELSE game.guessHistory]

\* the switch on event.eventType for a game that exists
UpdatedGame(game, event) ==
  CASE event.eventType = "guess_submitted" -> AfterGuessSubmitted(game, event)
    [] event.eventType = "clue_given" -> AfterClueGiven(game, event)
    [] OTHER -> game

\* GameManager.processGameEvent: the two maps after the call and the value
\* returned (no game for null)
processGameEvent(gamesMap, eventsMap, event) ==
  LET gameKey == GameKey(event)
  IN IF ~MapHas(gamesMap, gameKey) /\ ~StartsGame(event)
     THEN [games |-> gamesMap, gameEvents |-> eventsMap, returned |-> <<>>]
     ELSE LET game == IF MapHas(gamesMap, gameKey) THEN gamesMap[gameKey]
                      ELSE NewGame(gameKey, event)
              updated == UpdatedGame(game, event)
              history == IF MapHas(eventsMap, gameKey) THEN eventsMap[gameKey] ELSE <<>>
          IN [games |-> MapSet(gamesMap, gameKey, updated),
              gameEvents |-> MapSet(eventsMap, gameKey, Append(history, event)),
              returned |-> <<updated>>]

\* ========================================================================
\* Type graphs that may refer back to themselves
\* ========================================================================
\* depth of the JavaScript call stack a walk may use before the engine throws
\* RangeError: Maximum call stack size exceeded
MaxCallStack == 4

\* a type definition of a metadata document, reduced to what the recursion
\* looks at: its kind, the type ids of its members, the length of an array
TypeDef(kind, members, len) == [kind |-> kind, members |-> members, len |-> len]

TypeIds == {0, U8TypeId}

TypeDefs ==
  {TypeDef("primitive", <<>>, 0)}
    \cup {TypeDef(k, <<m>>, 0) : k \in {"composite", "variant", "sequence", "tuple"},
                                 m \in TypeIds}
    \cup {TypeDef("array", <<m>>, n) : m \in TypeIds, n \in {0, 1}}

TypeGraphs == [TypeIds -> TypeDefs]

NoGraph == [id \in TypeIds |-> TypeDef("primitive", <<>>, 0)]
NoWalk == [by |-> "none", typeId |-> 0, status |-> "none", result |-> "none", depth |-> 0]

\* status of a list of member walks made one after the other: the first one
\* that throws ends the list
RECURSIVE FirstFailure(_)
FirstFailure(results) ==
  IF results = <<>> THEN "ok"
  ELSE IF results[1] # "ok" THEN results[1]
       ELSE FirstFailure(Tail(results))

\* the calls of generateDecodeCall that generating the decoder of a type
\* makes: one per composite field, per field of a variant with fields, for a
\* sequence unless its element is type 5, per element of an array of at most
\* 4, once for a longer array.  No call counts its depth; the engine ends the
\* recursion when its stack is used up.
RECURSIVE GenerateWalk(_, _, _)
GenerateWalk(graph, typeId, depth) ==
  IF depth > MaxCallStack THEN "RangeError"
  ELSE IF typeId \notin DOMAIN graph THEN "ok"
  ELSE LET def == graph[typeId]
           inner == [i \in DOMAIN def.members |->
                       GenerateWalk(graph, def.members[i], depth + 1)]
       IN CASE def.kind = "primitive" -> "ok"
            [] def.kind = "composite" -> FirstFailure(inner)
            [] def.kind = "variant" -> FirstFailure(inner)
            [] def.kind = "sequence" ->
                 IF def.members[1] = U8TypeId THEN "ok" ELSE FirstFailure(inner)
            [] def.kind = "array" ->
                 IF def.len = 0 THEN "ok" ELSE FirstFailure(inner)
            [] OTHER -> "ok"

\* the calls of decodeValue that decoding a value of a type makes:
\* decodeComposite per field, decodeArray per element, decodeTuple per
\* member; decodeVariant decodes no field and a sequence is unsupported.
RECURSIVE DecodeWalk(_, _, _)
DecodeWalk(graph, typeId, depth) ==
  IF depth > MaxCallStack THEN "RangeError"
  ELSE LET def == graph[typeId]
           known == SelectSeq(def.members, LAMBDA m : m \in DOMAIN graph)
           inner == [i \in DOMAIN known |-> DecodeWalk(graph, known[i], depth + 1)]
       IN CASE def.kind = "primitive" -> "ok"
            [] def.kind = "composite" -> FirstFailure(inner)
            [] def.kind = "variant" -> "ok"
            [] def.kind = "array" ->
                 IF def.len = 0 THEN "ok" ELSE FirstFailure(inner)
            [] def.kind = "tuple" -> FirstFailure(inner)
            [] OTHER -> "Unsupported type definition"

\* ========================================================================
\* Metadata documents and their loaders
\* ========================================================================
\* a JSON value that is looked at as a list: missing, some value that is not
\* an array (an object), or an array of items
Missing == [kind |-> "missing", items |-> <<>>]
NotAList == [kind |-> "object", items |-> <<>>]
ListOf(items) == [kind |-> "list", items |-> items]

\* the signature_topic property of an event: undefined or a string
SignatureTopic(defined, chars) == [defined |-> defined, chars |-> chars]
NoSignatureTopic == SignatureTopic(FALSE, <<>>)

SignatureTopics ==
  {NoSignatureTopic, SignatureTopic(TRUE, <<>>),
   SignatureTopic(TRUE, <<"0", "x", "1", "1">>), SignatureTopic(TRUE, <<"2", "2">>)}

MetadataEvent(label, topic) == [label |-> label, signature_topic |-> topic]

EventLists ==
  {<<>>} \cup {<<MetadataEvent("A", t)>> : t \in SignatureTopics}
         \cup {<<MetadataEvent("A", t), MetadataEvent("B", u)>> :
                 t \in {NoSignatureTopic, SignatureTopic(TRUE, <<"0", "x", "1", "1">>)},
                 u \in {NoSignatureTopic, SignatureTopic(TRUE, <<"2", "2">>)}}

\* a parsed metadata file: version, whether spec exists, spec.events, types
Document(version, hasSpec, events, types) ==
  [version |-> version, hasSpec |-> hasSpec, events |-> events, types |-> types]

Documents ==
  {Document(v, TRUE, e, t) :
     v \in {5, 6},
     e \in {Missing, NotAList} \cup {ListOf(l) : l \in EventLists},
     t \in {Missing, NotAList, ListOf(<<>>), ListOf(<<U8TypeId>>)}}
    \cup {Document(v, FALSE, Missing, t) :
            v \in {5, 6}, t \in {Missing, ListOf(<<U8TypeId>>)}}

NoDocument == Document(6, FALSE, Missing, Missing)
NoLoad == [by |-> "none", status |-> "none", message |-> "", eventCache |-> {}, typeCache |-> {}]

Loaded(by, eventCache, typeCache) ==
  [by |-> by, status |-> "ok", message |-> "", eventCache |-> eventCache,
   typeCache |-> typeCache]
LoadFailed(by, message) ==
  [by |-> by, status |-> "error", message |-> message, eventCache |-> {}, typeCache |-> {}]

\* e.signature_topic as a condition: undefined and the empty string are falsy
TruthyTopic(topic) == topic.defined /\ topic.chars # <<>>

\* validateMetadata of the generator
validateMetadata(metadata) ==
  IF metadata.version # 6 THEN LoadFailed("validateMetadata", "Unsupported Ink! version")
  ELSE IF ~metadata.hasSpec \/ metadata.events.kind # "list"
       THEN LoadFailed("validateMetadata", "Missing or invalid spec.events")
  ELSE IF metadata.types.kind # "list"
       THEN LoadFailed("validateMetadata", "Missing or invalid types array")
  ELSE IF ~\E i \in DOMAIN metadata.events.items :
              TruthyTopic(metadata.events.items[i].signature_topic)
       THEN LoadFailed("validateMetadata", "No events with signature_topic found")
  ELSE Loaded("validateMetadata", {}, {})

\* x || []: a missing value is replaced by the empty array, anything else kept
OrEmptyList(value) == IF value.kind = "missing" THEN ListOf(<<>>) ELSE value

\* signature_topic without a leading 0x
NormalizedKey(chars) ==
  IF Len(chars) >= 2 /\ chars[1] = "0" /\ chars[2] = "x"
  THEN SubSeq(chars, 3, Len(chars))
  ELSE chars

\* SubsquidInkDecoder.loadMetadata: the version is not read; missing
\* spec.events and types become empty arrays; forEach on a value that is not
\* an array and startsWith on an undefined signature_topic throw a TypeError
\* that the catch turns into Failed to load metadata
loadMetadata(rawMetadata) ==
  LET events == OrEmptyList(IF rawMetadata.hasSpec THEN rawMetadata.events ELSE Missing)
      types == OrEmptyList(rawMetadata.types)
  IN IF events.kind # "list" THEN LoadFailed("loadMetadata", "Failed to load metadata")
     ELSE IF \E i \in DOMAIN events.items : ~events.items[i].signature_topic.defined
          THEN LoadFailed("loadMetadata", "Failed to load metadata")
     ELSE IF types.kind # "list" THEN LoadFailed("loadMetadata", "Failed to load metadata")
     ELSE Loaded("loadMetadata",
                 {NormalizedKey(events.items[i].signature_topic.chars) :
                    i \in DOMAIN events.items},
                 {types.items[i] : i \in DOMAIN types.items})

\* ------------------------------------------------------------------------
\* Inputs of getContractEvents
\* ------------------------------------------------------------------------
MaxBatch == 3

EnvValues ==
  {EnvUnset, EnvString(<<>>), EnvString(AddrLower),
   EnvString(<<" ">> \o AddrOther \o <<",">> \o AddrUpper)}

\* payloads the decoder of the indexer decodes: game_number, then attempt and
\* guess; game_number, player, then min_number and max_number
GuessData == <<1>> \o Zeros(15) \o <<1, 0, 0, 0, 5, 0>>
NewGameData == <<1>> \o Zeros(15) \o Zeros(AddressLen) \o <<1, 0, 5, 0>>

\* events of a block: a NewGame and two GuessMade of the same content from the
\* default contract, one from another contract, one with an unknown
\* signature, one whose payload is too short, one without args.contract, and
\* an event of another pallet
ChainEventPool ==
  {ContractEmitted(AddrLower, SigNewGame, NewGameData, <<TopicOne, TopicAddr>>),
   ContractEmitted(AddrLower, SigGuessMade, GuessData, <<TopicOne>>),
   ContractEmitted(AddrUpper, SigGuessMade, GuessData, <<TopicOne>>),
   ContractEmitted(AddrOther, SigGuessMade, GuessData, <<TopicOne>>),
   ContractEmitted(AddrLower, SigUnknown, GuessData, <<TopicOne>>),
   ContractEmitted(AddrLower, SigGuessMade, <<1>>, <<>>),
   ChainEvent("Revive.ContractEmitted", FALSE, <<>>, bytesToHex(GuessData), <<>>),
   OtherEvent}

Batches ==
  {[height |-> MaxHeight, events |-> e] : e \in SeqsUpTo(ChainEventPool, MaxBatch)}

NoBatch == [height |-> 0, events |-> <<>>]
NoBatchResult == [called |-> FALSE] @@ BatchStart

\* ------------------------------------------------------------------------
\* Inputs of processGameEvent
\* ------------------------------------------------------------------------
MaxEvents == 4

GameNumbers == {"1", "2"}

GameEvents ==
  {GameEvent("game_started", g, StrV("alice"), NumV(1), NumV(50), UndefinedV, UndefinedV,
             UndefinedV) : g \in GameNumbers}
    \cup {GameEvent("game_started", g, UndefinedV, UndefinedV, UndefinedV, UndefinedV,
                    UndefinedV, UndefinedV) : g \in GameNumbers}
    \cup {GameEvent("guess_submitted", g, UndefinedV, UndefinedV, UndefinedV, NumV(1),
                    NumV(7), UndefinedV) : g \in GameNumbers}
    \cup {GameEvent("guess_submitted", g, UndefinedV, UndefinedV, UndefinedV, NumV(2),
                    NumV(9), UndefinedV) : g \in GameNumbers}
    \cup {GameEvent("guess_submitted", g, UndefinedV, UndefinedV, UndefinedV, UndefinedV,
                    UndefinedV, UndefinedV) : g \in GameNumbers}
    \cup {GameEvent("clue_given", g, UndefinedV, UndefinedV, UndefinedV, NumV(1),
                    UndefinedV, StrV("Less")) : g \in GameNumbers}
    \cup {GameEvent("clue_given", g, UndefinedV, UndefinedV, UndefinedV, NumV(2),
                    UndefinedV, UndefinedV) : g \in GameNumbers}

NothingProcessed ==
  [called |-> FALSE,
   event |-> GameEvent("", "", UndefinedV, UndefinedV, UndefinedV, UndefinedV, UndefinedV,
                       UndefinedV),
   returned |-> <<>>]

\* ------------------------------------------------------------------------
\* Registry operations
\* ------------------------------------------------------------------------

\* generateSingleVersion, registry part: a first run writes the registry with
\* generateRegistryTs, a later run with --register merges into the parsed one
GenerateSingleVersion(versionTag, addresses, from, to, register) ==
  /\ registry' =
       IF registry = <<>>
       THEN <<VersionEntry(versionTag, addresses, from, to)>>
       ELSE IF register
            THEN generateMergedRegistryTs(parseExistingRegistry(registry),
                                          versionTag, addresses, from, to)
            ELSE registry
  /\ switchCases' =
       IF registry = <<>> THEN {versionTag}
       ELSE IF register THEN resolveSwitch(registry')
            ELSE switchCases
  /\ lastResolve' = NoResolve
  /\ UNCHANGED outsideRegistry

\* the same run, with the arguments of its call of generateMergedRegistryTs
\* and the array existingEntries as the call leaves it kept in lastMerge
GenerateSingleVersionTraced(versionTag, addresses, from, to, register) ==
  /\ GenerateSingleVersion(versionTag, addresses, from, to, register)
  /\ lastMerge' =
       IF registry # <<>> /\ register
       THEN [called |-> TRUE, version |-> versionTag, addresses |-> addresses,
             from |-> from, to |-> to,
             existingAfter |->
               ExistingEntriesAfterMerge(parseExistingRegistry(registry),
                                         versionTag, addresses, from, to)]
       ELSE NoMerge

\* a call of resolveDecoder of the generated registry module
ResolveDecoder(address, blockHeight) ==
  /\ registry # <<>>
  /\ lastResolve' = resolveDecoder(registry, switchCases, address, blockHeight)
  /\ registry' = registryAfterResolve(registry, address, blockHeight)
  /\ UNCHANGED <<switchCases, lastMerge, outsideRegistry>>

\* ------------------------------------------------------------------------
\* Decode operations
\* ------------------------------------------------------------------------

\* a call of decodeEvent of the generated v0.1.0 module
CallGeneratedDecodeEvent ==
  /\ outcome.decoder # "generated"
  /\ outcome' = decodeEvent(call.signatureHex, call.dataHex, call.topics)
  /\ UNCHANGED <<call, outsideDecode>>

\* a call of SubsquidInkDecoder.decodeEvent
CallSubsquidDecodeEvent ==
  /\ outcome.decoder # "subsquid"
  /\ outcome' = SubsquidInkDecoder_decodeEvent(call.dataHex, call.topics)
  /\ UNCHANGED <<call, outsideDecode>>

\* ------------------------------------------------------------------------
\* Decodes of one value: a type of the table, a buffer and an offset
\* ------------------------------------------------------------------------
MaxProbeTail == 1

ProbeTails == SeqsUpTo({0, 255}, MaxProbeTail)
ProbePads == {<<>>, <<9>>}

ByteBodies == {<<>>, <<0>>, <<1>>, <<2>>, <<127>>, <<128>>, <<255>>}
WordBodies == {<<1>>, <<44, 1>>, <<255, 127>>, <<0, 128>>, <<255, 255>>}
DwordBodies ==
  {<<2, 0, 1>>, <<2, 0, 1, 0>>, <<255, 255, 255, 127>>, <<0, 0, 0, 128>>,
   <<255, 255, 255, 255>>}
WideBodies(width) ==
  {Zeros(width - 2), <<1>> \o Zeros(width - 1), Zeros(width - 1) \o <<128>>,
   [i \in 1..width |-> 255],
   [i \in 1..width |-> IF i = width THEN 127 ELSE 255]}

\* compact integers of the four modes
CompactBodies ==
  {<<0>>, <<252>>, <<1, 1>>, <<253, 255>>, <<2, 0, 1, 0>>, <<254, 255, 255, 255>>,
   <<3, 0, 0, 0, 64>>, <<7, 1, 0, 0, 0, 1>>, <<3, 5>>}

\* a compact length of 0, 1 or 2 and the elements behind it
SequenceBodies == {<<0>>, <<4>>, <<4, 44, 1>>, <<8, 1, 0, 2, 0>>, <<8, 4, 7, 0>>}

CompositeBodies ==
  {<<44, 1>>, <<44, 1, 7>>, <<1, 0, 44, 1, 7, 4, 9>>, ContractAddressBytes}

ProbeBodies(typeId) ==
  IF typeId = Undefined THEN CompactBodies
  ELSE LET t == Types[typeId]
           p == IF t.kind = "primitive" THEN t.primitive ELSE ""
       IN CASE p \in {"u8", "i8"} -> ByteBodies
            [] p \in {"u16", "i16"} -> WordBodies
            [] p \in {"u32", "i32"} -> DwordBodies
            [] p \in {"u64", "i64"} -> WideBodies(8)
            [] p \in {"u128", "i128"} -> WideBodies(16)
            [] t.kind = "variant" -> ByteBodies
            [] t.kind = "sequence" -> SequenceBodies
            [] OTHER -> CompositeBodies

\* a value of the type at the offset, behind a pad and before a tail; a probe
\* of no type is a buffer for readCompactU32 alone
Probes ==
  UNION {{[typeId |-> id, buf |-> pad \o body \o tail, offset |-> Len(pad)] :
            body \in ProbeBodies(id), pad \in ProbePads, tail \in ProbeTails} :
          id \in DOMAIN Types \cup {Undefined}}

NoProbe == [typeId |-> Undefined, buf |-> <<>>, offset |-> 0]
NotDecoded == [decoder |-> "none", result |-> Throw("", <<>>)]

\* a readU32 result of 2^31 or more, which is beyond the 32-bit integers of TLC
BeyondInt32(p) ==
  /\ p.typeId # Undefined
  /\ Types[p.typeId].kind = "primitive"
  /\ Types[p.typeId].primitive \in {"u32", "i32"}
  /\ Int32Of(ByteAt(p.buf, p.offset + 3)) >= 128

\* the expression generateDecodeCall prints for the type, evaluated
CallGeneratedDecode ==
  /\ probe.typeId # Undefined
  /\ ~BeyondInt32(probe)
  /\ decoded.decoder # "generated"
  /\ decoded' = [decoder |-> "generated",
                  result |-> generateDecodeCall(probe.typeId, probe.buf, probe.offset)]
  /\ UNCHANGED <<probe, outsideValues>>

\* SubsquidInkDecoder.decodeValue of the type
CallDecodeValue ==
  /\ probe.typeId # Undefined
  /\ decoded.decoder # "subsquid"
  /\ decoded' = [decoder |-> "subsquid",
                  result |-> decodeValue(probe.buf, probe.offset, probe.typeId)]
  /\ UNCHANGED <<probe, outsideValues>>

\* readCompactU32(buf, offset)
CallReadCompactU32 ==
  /\ decoded.decoder # "readCompactU32"
  /\ decoded' = [decoder |-> "readCompactU32",
                  result |-> readCompactU32(probe.buf, probe.offset)]
  /\ UNCHANGED <<probe, outsideValues>>

\* nothing generated, nothing called
RegistryIdle ==
  /\ registry = <<>>
  /\ switchCases = {}
  /\ lastResolve = NoResolve
  /\ lastMerge = NoMerge

RepeatIdle ==
  /\ firstOutcome = NoOutcome
  /\ lastInput = "none"

DecodeIdle ==
  /\ call = NoCall
  /\ outcome = NoOutcome
  /\ RepeatIdle

ValuesIdle ==
  /\ probe = NoProbe
  /\ decoded = NotDecoded

GamesIdle ==
  /\ games = NoGames
  /\ gameEvents = NoGames
  /\ lastProcessed = NothingProcessed
  /\ processedCount = 0
  /\ ValuesIdle

BatchIdle ==
  /\ env = EnvUnset
  /\ targetContracts = NotLoaded
  /\ batch = NoBatch
  /\ batchResult = NoBatchResult
  /\ GamesIdle

GraphIdle ==
  /\ typeGraph = NoGraph
  /\ walk = NoWalk

MetadataIdle ==
  /\ document = NoDocument
  /\ loadResult = NoLoad
  /\ BatchIdle

InitRegistry ==
  /\ RegistryIdle
  /\ DecodeIdle
  /\ GraphIdle
  /\ MetadataIdle

\* a run without --register that finds a registry leaves it as it is, whatever
\* its other arguments: one choice of them stands for all
NextRegistry ==
  \/ \E v \in VersionTags, a \in AddressLists, f \in FromValues, t \in ToValues :
        GenerateSingleVersion(v, a, f, t, TRUE) /\ UNCHANGED lastMerge
  \/ \E v \in VersionTags :
        GenerateSingleVersion(v, <<>>, Undefined, Undefined, FALSE) /\ UNCHANGED lastMerge
  \/ \E a \in QueryAddresses, h \in Heights : ResolveDecoder(a, h)

SpecRegistry == InitRegistry /\ [][NextRegistry]_vars

\* runs of the generator alone, each merge traced
InitMerge == InitRegistry

NextMerge ==
  \/ \E v \in VersionTags, a \in AddressLists, f \in FromValues, t \in ToValues :
        GenerateSingleVersionTraced(v, a, f, t, TRUE)
  \/ \E v \in VersionTags :
        GenerateSingleVersionTraced(v, <<>>, Undefined, Undefined, FALSE)

SpecMerge == InitMerge /\ [][NextMerge]_vars

\* ------------------------------------------------------------------------
\* Walks of a type graph
\* ------------------------------------------------------------------------

\* generateEventsTs generating the decoder of an argument of type typeId: an
\* error thrown by generateDecodeCall ends the generator
GenerateDecoderOfType(typeId) ==
  /\ walk.by # "generator"
  /\ LET status == GenerateWalk(typeGraph, typeId, 1)
     IN walk' = [by |-> "generator", typeId |-> typeId, status |-> status,
                 result |-> IF status = "ok" THEN "generated" ELSE "crash",
                 depth |-> IF status = "RangeError" THEN MaxCallStack ELSE 0]
  /\ UNCHANGED <<typeGraph, outsideGraph>>

\* SubsquidInkDecoder.decodeEvent decoding an argument of type typeId:
\* whatever decodeValue throws is caught and null returned
DecodeValueOfType(typeId) ==
  /\ walk.by # "subsquid"
  /\ LET status == DecodeWalk(typeGraph, typeId, 1)
     IN walk' = [by |-> "subsquid", typeId |-> typeId, status |-> status,
                 result |-> IF status = "ok" THEN "decoded" ELSE "null",
                 depth |-> IF status = "RangeError" THEN MaxCallStack ELSE 0]
  /\ UNCHANGED <<typeGraph, outsideGraph>>

InitGraph ==
  /\ RegistryIdle
  /\ DecodeIdle
  /\ typeGraph \in TypeGraphs
  /\ walk = NoWalk
  /\ MetadataIdle

NextGraph ==
  \/ \E t \in TypeIds : GenerateDecoderOfType(t)
  \/ \E t \in TypeIds : DecodeValueOfType(t)

SpecGraph == InitGraph /\ [][NextGraph]_vars

\* ------------------------------------------------------------------------
\* Loading a metadata document
\* ------------------------------------------------------------------------

\* main / generateFromConfig: the generator validates the parsed file
ValidateMetadata ==
  /\ loadResult.by # "validateMetadata"
  /\ loadResult' = validateMetadata(document)
  /\ UNCHANGED <<document, outsideMetadata>>

\* new SubsquidInkDecoder(config): the constructor loads the file
LoadMetadata ==
  /\ loadResult.by # "loadMetadata"
  /\ loadResult' = loadMetadata(document)
  /\ UNCHANGED <<document, outsideMetadata>>

InitMetadata ==
  /\ RegistryIdle
  /\ DecodeIdle
  /\ GraphIdle
  /\ document \in Documents
  /\ loadResult = NoLoad
  /\ BatchIdle

NextMetadata == ValidateMetadata \/ LoadMetadata

SpecMetadata == InitMetadata /\ [][NextMetadata]_vars

\* ------------------------------------------------------------------------
\* The same call made again, decodes of other events in between
\* ------------------------------------------------------------------------

\* the decodeEvent calls that can come next: the input by either decoder;
\* then any other event by either decoder, or the input again by the decoder
\* that decoded it first
CallAgain(after) ==
  {[decoder |-> firstOutcome.decoder, input |-> call, position |-> after]}

RepeatSteps ==
  CASE lastInput = "none" ->
         {[decoder |-> d, input |-> call, position |-> "call"] : d \in Decoders}
    [] lastInput = "call" ->
         {[decoder |-> d, input |-> o, position |-> "other"] :
            d \in Decoders, o \in OtherInputs} \cup CallAgain("again")
    [] lastInput = "other" -> CallAgain("againAfterOther")
    [] OTHER -> {}

\* one decodeEvent call
RepeatedDecode(step) ==
  /\ outcome' = ReturnedByCall(outcome, DecodeBy(step.decoder, step.input))
  /\ firstOutcome' = IF step.position = "call" THEN outcome' ELSE firstOutcome
  /\ lastInput' = step.position
  /\ UNCHANGED <<call, outsideRepeat>>

InitRepeat ==
  /\ RegistryIdle
  /\ call \in RepeatInputs
  /\ outcome = NoOutcome
  /\ RepeatIdle
  /\ GraphIdle
  /\ MetadataIdle

NextRepeat == \E step \in RepeatSteps : RepeatedDecode(step)

SpecRepeat == InitRepeat /\ [][NextRepeat]_vars

\* ------------------------------------------------------------------------
\* Batches
\* ------------------------------------------------------------------------

\* the static initializer of Logger reads TARGET_CONTRACTS
LoadLogger ==
  /\ ~targetContracts.loaded
  /\ targetContracts' = [loaded |-> TRUE, list |-> LoggerTargetContracts(env)]
  /\ UNCHANGED <<env, batch, batchResult, outsideBatch>>

\* getContractEvents(ctx) for the batch
GetContractEvents ==
  /\ targetContracts.loaded
  /\ ~batchResult.called
  /\ batchResult' = [called |-> TRUE] @@
                      getContractEvents(getTargetContracts(targetContracts), batch)
  /\ UNCHANGED <<env, targetContracts, batch, outsideBatch>>

InitBatch ==
  /\ RegistryIdle
  /\ DecodeIdle
  /\ GraphIdle
  /\ document = NoDocument
  /\ loadResult = NoLoad
  /\ env \in EnvValues
  /\ targetContracts = NotLoaded
  /\ batch \in Batches
  /\ batchResult = NoBatchResult
  /\ GamesIdle

NextBatch == LoadLogger \/ GetContractEvents

SpecBatch == InitBatch /\ [][NextBatch]_vars

\* ------------------------------------------------------------------------
\* Games
\* ------------------------------------------------------------------------

\* persistentGameManager.processGameEvent(event, contract)
ProcessGameEvent(event) ==
  /\ processedCount < MaxEvents
  /\ LET after == processGameEvent(games, gameEvents, event)
     IN /\ games' = after.games
        /\ gameEvents' = after.gameEvents
        /\ lastProcessed' = [called |-> TRUE, event |-> event, returned |-> after.returned]
  /\ processedCount' = processedCount + 1
  /\ UNCHANGED outsideGames

InitGames ==
  /\ RegistryIdle
  /\ DecodeIdle
  /\ GraphIdle
  /\ MetadataIdle

NextGames == \E event \in GameEvents : ProcessGameEvent(event)

SpecGames == InitGames /\ [][NextGames]_vars

InitValues ==
  /\ RegistryIdle
  /\ DecodeIdle
  /\ GraphIdle
  /\ document = NoDocument
  /\ loadResult = NoLoad
  /\ env = EnvUnset
  /\ targetContracts = NotLoaded
  /\ batch = NoBatch
  /\ batchResult = NoBatchResult
  /\ games = NoGames
  /\ gameEvents = NoGames
  /\ lastProcessed = NothingProcessed
  /\ processedCount = 0
  /\ probe \in Probes
  /\ decoded = NotDecoded

NextValues ==
  \/ CallGeneratedDecode
  \/ CallDecodeValue
  \/ CallReadCompactU32

SpecValues == InitValues /\ [][NextValues]_vars

InitDecode ==
  /\ RegistryIdle
  /\ call \in CallInputs
  /\ outcome = NoOutcome
  /\ RepeatIdle
  /\ GraphIdle
  /\ MetadataIdle

NextDecode ==
  \/ CallGeneratedDecodeEvent
  \/ CallSubsquidDecodeEvent

SpecDecode == InitDecode /\ [][NextDecode]_vars

Init == InitDecode

Next == NextRegistry \/ NextMerge \/ NextDecode \/ NextRepeat \/ NextGraph \/ NextMetadata \/ NextBatch \/ NextGames \/ NextValues

Spec == Init /\ [][Next]_vars

\* ========================================================================
\* Properties
\* ========================================================================
DataLen == Len(hexToBytes(call.dataHex))

EventByLabel(label) == Events[CHOOSE i \in DOMAIN Events : Events[i].label = label]

IndexedArgs(e) == SelectSeq(e.args, LAMBDA a : a.indexed)

HasField(fields, name) == \E i \in DOMAIN fields : fields[i].name = name

FieldValue(fields, name) ==
  fields[CHOOSE i \in DOMAIN fields : fields[i].name = name].value

RECURSIVE ConsumedBefore(_, _)
ConsumedBefore(argOffsets, i) ==
  IF i <= 1 THEN 0
  ELSE ConsumedBefore(argOffsets, i - 1)
         + (argOffsets[i - 1].end - argOffsets[i - 1].start)

\* C1: every non-indexed argument is decoded at the data offset that is the
\* number of bytes the non-indexed arguments before it consumed (0 for the
\* first), in the generated decoders and in SubsquidInkDecoder alike.
C1_OnlyNonIndexedConsumeData ==
  \A i \in DOMAIN outcome.argOffsets :
    outcome.argOffsets[i].start = ConsumedBefore(outcome.argOffsets, i)

\* C2: a decode that returns a record had a topic for every indexed argument
\* of the event, and the record holds each of them.
C2_MissingTopicFails ==
  outcome.status = "ok" =>
    LET indexed == IndexedArgs(EventByLabel(outcome.label))
    IN /\ \A k \in DOMAIN indexed : k < Len(call.topics)
       /\ \A k \in DOMAIN indexed : HasField(outcome.data, indexed[k].label)

\* the signature a decodeEvent call was given: its first parameter for the
\* generated module, topics[0] for SubsquidInkDecoder
GivenSignature ==
  IF outcome.decoder = "generated" THEN call.signatureHex ELSE call.topics[1]

\* C3: the event spec is looked up by the signature with a leading 0x
\* stripped and lowercased; a signature of no event gives null, no error.
C3_NormalizedSignatureLookup ==
  (outcome.decoder = "generated" \/ (outcome.decoder = "subsquid" /\ call.topics # <<>>)) =>
    LET normalized == ToLowerCase(Strip0x(GivenSignature))
        known == {i \in DOMAIN Events : Events[i].sig = normalized}
    IN /\ known = {} => (outcome.status = "null" /\ outcome.err = "")
       /\ \A i \in known : outcome.label = Events[i].label

UnknownVariantV(discriminant) ==
  ObjectV(<<[name |-> "tag", value |-> StrV("UnknownVariant")],
            [name |-> "index", value |-> NumV(discriminant)]>>)

\* the declared indices of a variant type
VariantIndices(t) == {t.variants[i].index : i \in DOMAIN t.variants}

\* C4: a variant argument whose discriminant byte is none of the declared
\* indices decodes to {tag: 'UnknownVariant', index: byte}, and no decode
\* raises an invalid-variant error.
C4_UnknownVariantTagged ==
  /\ outcome.err # "Invalid variant index"
  /\ outcome.label # "" =>
       LET e == EventByLabel(outcome.label)
           data == hexToBytes(call.dataHex)
       IN \A i \in DOMAIN outcome.argOffsets :
            LET a == CHOOSE x \in {e.args[j] : j \in DOMAIN e.args} :
                       x.label = outcome.argOffsets[i].label
                d == ByteAt(data, outcome.argOffsets[i].start)
            IN (Types[a.type].kind = "variant" /\ d # Undefined
                  /\ d \notin VariantIndices(Types[a.type]))
                 => FieldValue(outcome.data, a.label) = UnknownVariantV(d)

\* C5: a decode that returns a record made no read past the end of the data
\* buffer: every read started inside the buffer and the bytes consumed end
\* inside it.
C5_ReadPastEndFails ==
  outcome.status = "ok" =>
    /\ \A i \in DOMAIN outcome.reads : outcome.reads[i] < DataLen
    /\ \A i \in DOMAIN outcome.argOffsets : outcome.argOffsets[i].end <= DataLen

\* C6: the data offset never decreases during a decode, every read starts at
\* an offset of at most the buffer length, and a decode does not come back
\* with the offset beyond the buffer.
C6_OffsetMonotoneAndBounded ==
  /\ \A i \in DOMAIN outcome.reads :
       \A j \in DOMAIN outcome.reads : i <= j => outcome.reads[i] <= outcome.reads[j]
  /\ \A i \in DOMAIN outcome.reads : outcome.reads[i] <= DataLen
  /\ outcome.status = "ok" => outcome.offset <= DataLen

\* an entry matches an address when its list is absent or holds the address
EntryHasAddress(e, address) ==
  e.addresses = <<>> \/ \E i \in DOMAIN e.addresses : e.addresses[i] = address

\* the half-open range [from, to) of an entry holds the height
HalfOpenContains(e, h) ==
  /\ e.from = Undefined \/ h >= e.from
  /\ e.to = Undefined \/ e.to = Null \/ h < e.to

FromOrZero(e) == IF e.from = Undefined THEN 0 ELSE e.from

\* C7: when some registry entry matches the address and none of them has a
\* range that holds the height, resolveDecoder still returns the version of
\* one of the entries matching the address.
C7_AddressOnlyFallback ==
  lastResolve.status # "none" =>
    LET matching == {i \in DOMAIN registry :
                       EntryHasAddress(registry[i], lastResolve.address)}
    IN (/\ matching # {}
        /\ \A i \in matching :
             ~HalfOpenContains(registry[i], lastResolve.blockHeight))
         => /\ lastResolve.status = "ok"
            /\ \E i \in matching : registry[i].version = lastResolve.version

\* a resolve of the single entry [from, open) one block below from succeeded
C7_Witness ==
  /\ Len(registry) = 1
  /\ registry[1].to = Null
  /\ registry[1].from = lastResolve.blockHeight + 1
  /\ Len(lastResolve.addressMatches) = 1
  /\ lastResolve.rangeMatches = <<>>
  /\ lastResolve.status = "ok"
  /\ lastResolve.version = registry[1].version

\* C8: an addressed entry is kept by the range filter exactly when the
\* half-open range [from, to) holds the height; a numeric to, 0 included,
\* never matches a height >= to.
C8_HalfOpenRange ==
  lastResolve.status # "none" =>
    \A i \in DOMAIN lastResolve.addressMatches :
      (\E j \in DOMAIN lastResolve.rangeMatches :
          lastResolve.rangeMatches[j] = lastResolve.addressMatches[i])
        <=> HalfOpenContains(lastResolve.addressMatches[i], lastResolve.blockHeight)

C10_LowercasedAddressFilter ==
  lastResolve.status # "none" =>
    LET kept == SelectSeq(registry,
                  LAMBDA e : EntryHasAddress(e, ToLowerCase(lastResolve.address)))
    IN /\ lastResolve.addressMatches = kept
       /\ lastResolve.status = "NoDecoderForAddress" <=> kept = <<>>

\* the registry with its entries stored in the order p
Reordered(reg, p) == [i \in DOMAIN reg |-> reg[p[i]]]

\* C11: resolveDecoder returns the same version (or the same error) for
\* every order in which the entries of the registry are stored.
C11_StorageOrderIndependent ==
  lastResolve.status # "none" =>
    \A p \in Permutations(DOMAIN registry) :
      LET r == resolveDecoder(Reordered(registry, p), switchCases,
                              lastResolve.address, lastResolve.blockHeight)
      IN r.status = lastResolve.status /\ r.version = lastResolve.version

\* the version tags of a list of entries
VersionsOf(entries) == {entries[i].version : i \in DOMAIN entries}

UniqueTags(entries) ==
  \A i, j \in DOMAIN entries : entries[i].version = entries[j].version => i = j

\* C12: a merge leaves one entry per version tag; the entry of the merged tag
\* holds the addresses, from and to that were supplied, every other entry is
\* kept as it was, the entries are in ascending order of from, and the switch
\* has a case for every entry.
C12_MergeInsertOrUpdate ==
  [][(lastMerge'.called /\ UniqueTags(registry)) =>
       /\ UniqueTags(registry')
       /\ VersionsOf(registry') = VersionsOf(registry) \cup {lastMerge'.version}
       /\ \A i \in DOMAIN registry' :
            registry'[i].version = lastMerge'.version =>
              registry'[i] = VersionEntry(lastMerge'.version, lastMerge'.addresses,
                                          lastMerge'.from, lastMerge'.to)
       /\ \A i \in DOMAIN registry :
            registry[i].version # lastMerge'.version =>
              \E j \in DOMAIN registry' : registry'[j] = registry[i]
       /\ \A i, j \in DOMAIN registry' :
            (i < j /\ registry'[i].from # Undefined /\ registry'[j].from # Undefined)
              => registry'[i].from <= registry'[j].from
       /\ VersionsOf(registry') \subseteq switchCases'
    ]_vars

\* a merge updated or added the entry that now stands first of two, the
\* other one having a from
C12_Witness ==
  /\ lastMerge.called
  /\ Len(registry) = 2
  /\ registry[1].version = lastMerge.version
  /\ registry[1].addresses # <<>>
  /\ registry[2].from # Undefined
  /\ UniqueTags(registry)

\* C13: generateMergedRegistryTs leaves the list of existing entries it was
\* given as it was, in length, contents and order.
C13_MergeLeavesInputUnchanged ==
  [][lastMerge'.called =>
       lastMerge'.existingAfter = parseExistingRegistry(registry)]_vars

RECURSIVE ReachableFrom(_, _, _)
ReachableFrom(graph, ids, n) ==
  IF n = 0 THEN ids
  ELSE LET next == UNION {{graph[i].members[k] : k \in DOMAIN graph[i].members} :
                             i \in ids \cap DOMAIN graph}
       IN next \cup ReachableFrom(graph, next, n - 1)

RefersBackToItself(graph, typeId) ==
  typeId \in ReachableFrom(graph, {typeId}, Cardinality(DOMAIN graph))

\* C15: no walk of a type graph ends by using up the call stack; over a type
\* that refers back to itself it either completes or stops with
\* RecursionLimitExceeded.
C15_RecursionDepthLimited ==
  (walk.by # "none" /\ RefersBackToItself(typeGraph, walk.typeId)) =>
     walk.status \in {"ok", "RecursionLimitExceeded", "Unsupported type definition"}

\* a document that must not load: wrong version, spec.events or types missing
\* or not lists, or no event with a signature_topic
InvalidDocument(doc) ==
  \/ doc.version # 6
  \/ ~doc.hasSpec
  \/ doc.events.kind # "list"
  \/ doc.types.kind # "list"
  \/ ~\E i \in DOMAIN doc.events.items : TruthyTopic(doc.events.items[i].signature_topic)

\* C18: every loader rejects an invalid metadata document with an error.
C18_InvalidMetadataRejected ==
  (loadResult.by # "none" /\ InvalidDocument(document)) => loadResult.status = "error"

\* the generator's validateMetadata alone does reject every invalid document
C18_ValidateMetadataRejects ==
  (loadResult.by = "validateMetadata" /\ InvalidDocument(document)) =>
     loadResult.status = "error"

FailingEvent(targets, event) ==
  /\ event.name = "Revive.ContractEmitted"
  /\ \/ ~event.hasContract
     \/ /\ Includes(targets, ToLowerCase(event.contract))
        /\ SubsquidInkDecoder_decodeEvent(event.data, event.topics).status # "ok"

\* the batch without its event at position i: the other events keep their
\* places in the block
WithoutEventAt(block, i) == [block EXCEPT !.events[i] = OtherEvent]

\* the batch without its event at position i, the later events moved up
CutEventAt(block, i) ==
  [block EXCEPT !.events = SubSeq(block.events, 1, i - 1)
                             \o SubSeq(block.events, i + 1, Len(block.events))]

\* typed events without the position in the block that their id carries
WithoutIndex(typedEvents) ==
  [k \in DOMAIN typedEvents |->
     [typedEvents[k] EXCEPT !.id = <<typedEvents[k].id[1], typedEvents[k].id[3]>>]]

C16_WitnessNull ==
  /\ batchResult.called
  /\ Len(batch.events) >= 2
  /\ FailingEvent(targetContracts.list, batch.events[1])
  /\ batch.events[1].hasContract
  /\ Len(batchResult.contractEvents) >= 1

\* the entries of a TARGET_CONTRACTS that is not empty
ConfiguredContracts(e) ==
  LET parts == Split(e.chars, ",") IN [i \in DOMAIN parts |-> Trim(parts[i])]

EnvEmpty(e) == ~e.defined \/ e.chars = <<>>

\* C19: with TARGET_CONTRACTS empty every Revive.ContractEmitted event is
\* handed to the decoder; otherwise exactly those whose contract address is in
\* the configured list.
C19_TargetContractsFilter ==
  batchResult.called =>
    \A i \in DOMAIN batch.events :
      (batch.events[i].name = "Revive.ContractEmitted" /\ batch.events[i].hasContract) =>
        (Includes(batchResult.passedToDecoder, i - 1)
           <=> (EnvEmpty(env) \/ Includes(ConfiguredContracts(env), batch.events[i].contract)))

\* with a TARGET_CONTRACTS of lower-case addresses the filter is as described
C19_LowerCaseListFilter ==
  (batchResult.called /\ env = EnvString(AddrLower)) =>
    \A i \in DOMAIN batch.events :
      (batch.events[i].name = "Revive.ContractEmitted" /\ batch.events[i].hasContract) =>
        (Includes(batchResult.passedToDecoder, i - 1)
           <=> Includes(ConfiguredContracts(env), ToLowerCase(batch.events[i].contract)))

\* C20: a game is created only by game_started; guess_submitted or clue_given
\* for a key without a game returns null and leaves the games and the event
\* history as they were; game_started for a key that has a game leaves the
\* game as it was.
C20_GameCreatedOnlyByGameStarted ==
  [][lastProcessed'.called =>
       LET event == lastProcessed'.event
           gameKey == GameKey(event)
       IN /\ (DOMAIN games' # DOMAIN games) => event.eventType = "game_started"
          /\ (~MapHas(games, gameKey) /\ event.eventType \in {"guess_submitted", "clue_given"})
               => /\ lastProcessed'.returned = <<>>
                  /\ games' = games
                  /\ gameEvents' = gameEvents
          /\ (MapHas(games, gameKey) /\ event.eventType = "game_started")
               => games' = games]_vars

\* a guess for a game that does not exist was answered by null while another
\* game exists
C20_Witness ==
  /\ lastProcessed.called
  /\ lastProcessed.event.eventType = "guess_submitted"
  /\ lastProcessed.returned = <<>>
  /\ games # NoGames

\* game_started arrived for a game that already has a guess in its history
C20_WitnessStartedAgain ==
  /\ lastProcessed.called
  /\ lastProcessed.event.eventType = "game_started"
  /\ MapHas(games, GameKey(lastProcessed.event))
  /\ games[GameKey(lastProcessed.event)].guessHistory # <<>>

\* the value the topic rule gives an indexed argument of the type: u128, u32
\* and u16 little-endian at offset 0 of the topic, an H160 the hex of its last
\* 20 bytes, any other type the topic as it came
TopicRuleValue(typeId, topic) ==
  LET tb == hexToBytes(topic)
      t == Types[typeId]
  IN IF t.kind = "primitive" /\ t.primitive = "u128" THEN BigIntV(SubSeq(tb, 1, 16))
     ELSE IF t.kind = "primitive" /\ t.primitive = "u32"
     THEN NumV(LeValue(SubSeq(tb, 1, 4)))
     ELSE IF t.kind = "primitive" /\ t.primitive = "u16"
     THEN NumV(LeValue(SubSeq(tb, 1, 2)))
     ELSE IF t.path = "primitive_types.H160"
     THEN HexV(bytesToHex(SubSeq(tb, TopicLen - AddressLen + 1, TopicLen)))
     ELSE HexV(topic)

\* the indexed arguments of the event all have a topic of 32 bytes
TopicsOfIndexedArgs(e) ==
  \A k \in DOMAIN IndexedArgs(e) :
    /\ k < Len(call.topics)
    /\ Len(hexToBytes(call.topics[k + 1])) = TopicLen

\* C21: in a record a decoder returns for an event whose indexed arguments
\* each have a 32-byte topic, the k-th indexed argument is the value the
\* topic rule gives for topics[k]: little-endian u128, u32 or u16 at offset
\* 0, the hex of the last 20 bytes for an H160, the raw topic otherwise.
C21_IndexedArgFromOwnTopic ==
  (outcome.status = "ok" /\ TopicsOfIndexedArgs(EventByLabel(outcome.label))) =>
    LET indexed == IndexedArgs(EventByLabel(outcome.label))
    IN \A k \in DOMAIN indexed :
         /\ HasField(outcome.data, indexed[k].label)
         /\ FieldValue(outcome.data, indexed[k].label)
              = TopicRuleValue(indexed[k].type, call.topics[k + 1])

\* a value of the probed type was decoded by generated code or by decodeValue
TypedDecode == decoded.decoder \in {"generated", "subsquid"}

ProbeType == Types[probe.typeId]

\* C22: for a variant type whose variants are all fieldless, a discriminant
\* byte d that is a declared index decodes to the name of the variant that
\* declares index d, and the offset advances by exactly one byte.
C22_UnitVariantByDeclaredIndex ==
  (/\ TypedDecode
   /\ ProbeType.kind = "variant"
   /\ \A i \in DOMAIN ProbeType.variants : ProbeType.variants[i].fields = <<>>
   /\ ByteAt(probe.buf, probe.offset) \in VariantIndices(ProbeType))
    => /\ decoded.result.ok
       /\ \E i \in DOMAIN ProbeType.variants :
            /\ ProbeType.variants[i].index = ByteAt(probe.buf, probe.offset)
            /\ decoded.result.value = StrV(ProbeType.variants[i].name)
       /\ decoded.result.offset = probe.offset + 1

\* the bytes of the probe from its offset on
ProbeBytes == SubSeq(probe.buf, probe.offset + 1, Len(probe.buf))

\* a compact integer whose mode is in the two low bits of ProbeBytes[1] and
\* whose mode 11 has extra bytes behind the first: the value and the count of
\* bytes consumed when the buffer holds them all
CompactRule(extra) ==
  LET b == ProbeBytes
      flag == b[1] % 4
      width == CASE flag = 0 -> 1 [] flag = 1 -> 2 [] flag = 2 -> 4
                 [] OTHER -> 1 + extra
  IN [held |-> Len(b) >= width,
      width |-> width,
      value |->
        CASE flag = 0 -> NumV(b[1] \div 4)
          [] flag = 1 /\ Len(b) >= 2 -> NumV(LeValue(SubSeq(b, 1, 2)) \div 4)
          [] flag = 2 /\ Len(b) >= 4 ->
               NumV(LeValue(SubSeq(b, 1, 3)) \div 4 + 4194304 * b[4])
          [] flag = 3 /\ Len(b) >= width -> BigIntV(SubSeq(b, 2, width))
          [] OTHER -> UndefinedV]

\* what readCompactU32 returned is the value of the rule and the offset
\* moved by the bytes the rule consumes
CompactReadIs(rule) ==
  rule.held =>
    /\ decoded.result.ok
    /\ decoded.result.value = rule.value
    /\ decoded.result.offset = probe.offset + rule.width

\* C23 as stated: on a buffer that holds the bytes of the compact integer,
\* readCompactU32 gives byte >> 2 and 1 byte in mode 00, the 2-byte value >> 2
\* and 2 bytes in mode 01, the 4-byte value >> 2 and 4 bytes in mode 10, and
\* in mode 11, n being the upper 6 bits of the first byte, the integer of the
\* n bytes behind it and 1 + n bytes.
C23_CompactModesAsStated ==
  (decoded.decoder = "readCompactU32" /\ ProbeBytes # <<>>) =>
    CompactReadIs(CompactRule(ProbeBytes[1] \div 4))

\* C23, amended: the same for modes 00, 01 and 10; in mode 11 the upper 6
\* bits of the first byte plus 4 are the count m of the bytes behind it, the
\* value is the little-endian integer of those m bytes and 1 + m bytes are
\* consumed.
C23_CompactModesPlusFour ==
  (decoded.decoder = "readCompactU32" /\ ProbeBytes # <<>>) =>
    CompactReadIs(CompactRule(4 + ProbeBytes[1] \div 4))

\* a compact integer of mode 11 with 5 bytes behind the first byte was read
C23_Witness ==
  /\ decoded.decoder = "readCompactU32"
  /\ ProbeBytes # <<>>
  /\ ProbeBytes[1] = 7
  /\ decoded.result.ok
  /\ decoded.result.value = BigIntV(<<1, 0, 0, 0, 1>>)
  /\ decoded.result.offset = probe.offset + 6

\* the width in bytes of an integer primitive
IntWidth(primitive) ==
  CASE primitive \in {"u8", "i8"} -> 1
    [] primitive \in {"u16", "i16"} -> 2
    [] primitive \in {"u32", "i32"} -> 4
    [] primitive \in {"u64", "i64"} -> 8
    [] primitive \in {"u128", "i128"} -> 16

\* the probed type is one of the primitives and the buffer holds its bytes
IsPrimitiveIn(primitives) ==
  /\ ProbeType.kind = "primitive"
  /\ ProbeType.primitive \in primitives
  /\ Len(ProbeBytes) >= IntWidth(ProbeType.primitive)

\* the bytes of the integer
IntBytes == SubSeq(ProbeBytes, 1, IntWidth(ProbeType.primitive))

\* C24: an unsigned integer of w bits read from a buffer that holds its w/8
\* bytes is the little-endian value of those bytes, which is in [0, 2^w),
\* and the offset advances by w/8: by the readers of support.ts the generated
\* code calls and by SubsquidInkDecoder.decodePrimitive.
C24_UnsignedLittleEndian ==
  (TypedDecode /\ IsPrimitiveIn({"u8", "u16", "u32", "u64", "u128"})) =>
    LET w == IntWidth(ProbeType.primitive)
        v == decoded.result.value
    IN /\ decoded.result.ok
       /\ decoded.result.offset = probe.offset + w
       /\ w <= 2 => v = NumV(LeValue(IntBytes))
       /\ w = 4 => /\ v.k = "number"
                   /\ v.n >= 0
                   /\ IntBytes[4] < 128 => v.n = LeValue(IntBytes)
       /\ w >= 8 => v = BigIntV(IntBytes)

\* the two's complement value of n-bit little-endian bytes: u when the top
\* bit is clear, u - 2^n when it is set; a number up to 32 bits, a bigint
\* above
SignedValue(bytes) ==
  LET w == Len(bytes)
      low == LeValue(SubSeq(bytes, 1, w - 1))
      top == IF bytes[w] >= 128 THEN bytes[w] - 256 ELSE bytes[w]
      scale == CASE w = 1 -> 1 [] w = 2 -> 256 [] OTHER -> 16777216
  IN IF w <= 4 THEN NumV(low + scale * top)
     ELSE IF bytes[w] >= 128 THEN NegBigIntV(bytes)
     ELSE BigIntV(bytes)

\* C25: a signed integer of n bits read from a buffer that holds its n/8
\* bytes is the two's complement value of the unsigned read u, u when
\* u <= 2^(n-1) - 1 and u - 2^n otherwise, and the offset advances by n/8:
\* i8, i16 and i32 in the generated code, i8 to i128 in SubsquidInkDecoder.
C25_SignedTwosComplement ==
  (/\ TypedDecode
   /\ IsPrimitiveIn({"i8", "i16", "i32", "i64", "i128"})
   /\ decoded.decoder = "generated" => ProbeType.primitive \in {"i8", "i16", "i32"})
    => /\ decoded.result.ok
       /\ decoded.result.value = SignedValue(IntBytes)
       /\ decoded.result.offset = probe.offset + IntWidth(ProbeType.primitive)

\* the name of field i (from 0) of a composite: declared, or field<i>
DeclaredFieldName(fields, i) ==
  IF fields[i + 1].name # "" THEN fields[i + 1].name
  ELSE CASE i = 0 -> "field0" [] i = 1 -> "field1" [] OTHER -> "field2"

\* the decode of one value of the type at the offset, by the decoder that
\* decoded the probe
DecodeAt(typeId, offset) ==
  IF decoded.decoder = "generated" THEN generateDecodeCall(typeId, probe.buf, offset)
  ELSE decodeValue(probe.buf, offset, typeId)

\* the offset at which field i (from 0) of the composite starts: the incoming
\* offset, then where the field before ended
RECURSIVE FieldStart(_, _)
FieldStart(fields, i) ==
  IF i = 0 THEN probe.offset
  ELSE DecodeAt(fields[i].type, FieldStart(fields, i - 1)).offset

\* C26: a composite of k fields decodes into a mapping of exactly k entries,
\* entry i named by the declared name of field i or field<i>, holding the
\* value of the field's type decoded where field i - 1 ended, and the offset
\* returned is where the last field ended; nested composites, arrays and
\* sequences included.
C26_CompositeFieldsInOrder ==
  (TypedDecode /\ ProbeType.kind = "composite" /\ decoded.result.ok) =>
    LET fields == ProbeType.fields
        entries == decoded.result.value.fields
    IN /\ decoded.result.value.k = "object"
       /\ Len(entries) = Len(fields)
       /\ \A i \in DOMAIN fields :
            /\ entries[i].name = DeclaredFieldName(fields, i - 1)
            /\ entries[i].value = DecodeAt(fields[i].type, FieldStart(fields, i - 1)).value
       /\ decoded.result.offset = FieldStart(fields, Len(fields))

\* the offset at which element i (from 0) of a sequence starts, the first
\* one behind the compact length
RECURSIVE ElementStart(_, _)
ElementStart(elementType, i) ==
  IF i = 0 THEN readCompactU32(probe.buf, probe.offset).offset
  ELSE DecodeAt(elementType, ElementStart(elementType, i - 1)).offset

\* C27: a sequence whose compact length L and L elements the buffer holds,
\* each element decodable, decodes without error; when the element type is the primitive u8 the value
\* is the slice of the L bytes behind the length, otherwise the list of the L
\* elements decoded one behind the other; the offset returned is the end of
\* the last element.
C27_SequenceByCompactLength ==
  (TypedDecode /\ ProbeType.kind = "sequence") =>
    LET len == readCompactU32(probe.buf, probe.offset)
        L == NumberOf(len.value)
        element == Types[ProbeType.type]
        end == ElementStart(ProbeType.type, L)
        held == /\ len.ok
                /\ \A i \in 1..L :
                     DecodeAt(ProbeType.type, ElementStart(ProbeType.type, i - 1)).ok
                /\ end <= Len(probe.buf)
    IN held =>
         /\ decoded.result.ok
         /\ decoded.result.offset = end
         /\ (element.kind = "primitive" /\ element.primitive = "u8")
              => decoded.result.value = BytesV(Slice(probe.buf, len.offset, len.offset + L))
         /\ ~(element.kind = "primitive" /\ element.primitive = "u8")
              => decoded.result.value =
                   ListV([i \in 1..L |->
                            DecodeAt(ProbeType.type, ElementStart(ProbeType.type, i - 1)).value])

\* C28: a value of the H160 type, the composite of one 20-byte field, decoded
\* from a buffer that holds its 20 bytes is the string '0x' and the 40 hex
\* digits of those bytes, never a record of its field, and the offset
\* advances by 20.
C28_AddressDecodesToHex ==
  (/\ TypedDecode
   /\ ProbeType.kind = "composite"
   /\ ProbeType.path = "primitive_types.H160"
   /\ Len(ProbeBytes) >= AddressLen)
    => /\ decoded.result.ok
       /\ decoded.result.value = HexV(bytesToHex(SubSeq(ProbeBytes, 1, AddressLen)))
       /\ decoded.result.offset = probe.offset + AddressLen

\* the attempt numbers of the guess_submitted events in a list of events
GuessAttempts(events) ==
  {events[i].attemptNumber.n :
     i \in {j \in DOMAIN events : /\ events[j].eventType = "guess_submitted"
                                  /\ events[j].attemptNumber.k = "number"}}

\* the greatest of them, 0 when there is none
GreatestGuessAttempt(events) ==
  LET attempts == GuessAttempts(events) \cup {0}
  IN CHOOSE a \in attempts : \A b \in attempts : b <= a

\* C29: in every call of processGameEvent no game's attempt decreases, only a
\* guess_submitted changes an attempt, and after the call the attempt of each
\* game is the greatest attemptNumber of the guess_submitted events processed
\* for it so far, 0 when there is none, in whatever order they came.
C29_AttemptIsGreatestGuess ==
  [][/\ \A k \in DOMAIN games :
          /\ k \in DOMAIN games'
          /\ games'[k].attempt.n >= games[k].attempt.n
          /\ lastProcessed'.event.eventType # "guess_submitted"
               => games'[k].attempt = games[k].attempt
     /\ \A k \in DOMAIN games' :
          games'[k].attempt = NumV(GreatestGuessAttempt(gameEvents'[k]))]_vars

\* the guess of attempt 1 was processed after the guess of attempt 2 and the
\* game is at attempt 2
C29_Witness ==
  /\ lastProcessed.called
  /\ lastProcessed.event.eventType = "guess_submitted"
  /\ lastProcessed.event.attemptNumber = NumV(1)
  /\ lastProcessed.returned # <<>>
  /\ lastProcessed.returned[1].attempt = NumV(2)
  /\ Len(lastProcessed.returned[1].guessHistory) = 2

\* the positions of the guess_submitted events in a list of events
GuessPositions(events) ==
  {i \in DOMAIN events : events[i].eventType = "guess_submitted"}

\* the position of the m-th guess_submitted event, the one history item m
\* was appended for
GuessPosition(events, m) ==
  CHOOSE i \in GuessPositions(events) :
    Cardinality({j \in GuessPositions(events) : j <= i}) = m

\* the clue_given events for the attempt of a history item that came after
\* the guess at position i
CluesAfter(events, i, item) ==
  {j \in DOMAIN events : /\ j > i
                         /\ events[j].eventType = "clue_given"
                         /\ events[j].attemptNumber = item.attemptNumber}

\* C30: the guess history of a game has one item for each guess_submitted
\* processed for it, in the order they came; an item for whose attempt no
\* clue_given came after its guess has result 'Pending'; an item for whose
\* attempt a clue_given came after its guess carries the result of such a
\* clue ('Unknown' for a clue without a result).
C30_HistoryCarriesClueOfAttempt ==
  \A k \in DOMAIN games :
    LET events == gameEvents[k]
        history == games[k].guessHistory
    IN /\ Len(history) = Cardinality(GuessPositions(events))
       /\ \A m \in DOMAIN history :
            LET clues == CluesAfter(events, GuessPosition(events, m), history[m])
            IN IF clues = {} THEN history[m].result = StrV("Pending")
               ELSE \E j \in clues :
                      history[m].result = OrDefault(events[j].result, StrV("Unknown"))

====
